---- MODULE Spec2Model ----
(***************************************************************************)
(* Peg-jump puzzle solver (cyber-front/jump).                              *)
(*                                                                         *)
(* The module models the board topology (board.py), the Step value         *)
(* (step.py), the two move generators (Board.moves and solver.moves), the  *)
(* pickers and goal checkers (solver.py) and the two search executives     *)
(* (Board.solve and solver.solve_executive).                               *)
(*                                                                         *)
(* Python values whose class decides the outcome of an operation are       *)
(* records carrying a cls field: a Step is [cls |-> "Step", ...], a set    *)
(* held as a path element is [cls |-> "set", elems |-> S], None is         *)
(* [cls |-> "NoneType"].  The State fields of a Step are plain sets.       *)
(*                                                                         *)
(* Object identity.  The runs of SpecObjects keep the set objects in a     *)
(* heap, a sequence of set contents indexed by address; there the State    *)
(* fields of a Step hold addresses.                                        *)
(*                                                                         *)
(* Iteration order.  Board.moves iterates a Python set of small ints and   *)
(* a dict: CPython walks a set of non-negative ints below its table size   *)
(* in ascending order and a dict in insertion order, which for boards      *)
(* built by read_board / get_transitions (and for the literals of the      *)
(* tests) is ascending direction order.  Both are modelled as ascending.   *)
(***************************************************************************)
EXTENDS Integers, Sequences, FiniteSets, TLC

VARIABLES
    board,       \* Board instance: [transitions, nodes, edges, directions]
    start,       \* start state handed to the search / state handed to moves
    entry,       \* which executive runs: "Board.solve" or "solve_executive"
    checker,     \* [method |-> "POSITION", finish |-> S] or [method |-> "COUNT", final_count |-> n];
                 \* [finish, final_count] of the Config (solver.solve runs); the
                 \* configuration dict (from_dict runs)
    min_pegs,    \* pruning bound handed to the executive
    picker,      \* picker of the running call
    scope,       \* scope of the running call
    candidates,  \* local `candidates` of the running call; address of the
                 \* list handed to the picker (picker runs)
    solutions,   \* local `solutions` of the running call
    pc,          \* "idle", "loop", "returned", "TypeError", "AttributeError", "moves",
                 \* "moves direct", "transit", "direction", "validate", "checked",
                 \* "picked", "both moves", "solve", "from_dict"; "choose ..."
                 \* while SpecLive draws the inputs of the call
    log,         \* outcomes of the finished calls, in call order
    ret          \* value returned by the last call of Board.moves (move-generator
                 \* runs); record of the last call (lookup runs); the heap of set
                 \* objects (object, checker and picker runs); outcome of the
                 \* call (solver.solve and from_dict runs)

vars == <<board, start, entry, checker, min_pegs, picker, scope,
          candidates, solutions, pc, log, ret>>

----------------------------------------------------------------------------
(* Bounds of the generated topologies *)

NumDirs == 2

\* Longest candidate list handed to a picker in the picker runs.
MaxCandidates == 3

\* Longest start or finish list of a configuration dict.
MaxListLen == 2

----------------------------------------------------------------------------
(* Generic helpers *)

Min(S) == CHOOSE x \in S : \A y \in S : x <= y

RECURSIVE SortedSeq(_)
SortedSeq(S) == IF S = {} THEN <<>> ELSE <<Min(S)>> \o SortedSeq(S \ {Min(S)})

RECURSIVE Flatten(_)
Flatten(ss) == IF ss = <<>> THEN <<>> ELSE Head(ss) \o Flatten(Tail(ss))

Last(s) == s[Len(s)]

Range(s) == {s[i] : i \in 1..Len(s)}

----------------------------------------------------------------------------
(* enumerations.py *)

DEPTH_FIRST == "DEPTH_FIRST"
BREADTH_FIRST == "BREADTH_FIRST"
SINGLE == "SINGLE"
MULTIPLE == "MULTIPLE"
POSITION == "POSITION"
COUNT == "COUNT"

----------------------------------------------------------------------------
(* Python objects *)

\* Outcome of a Python expression: a value or a raised exception.
Value(v) == [raised |-> "", value |-> v]
Raise(e) == [raised |-> e, value |-> FALSE]

None == [cls |-> "NoneType"]

\* An int where its class matters (an argument of range, a value that may
\* also be None).
PyInt(n) == [cls |-> "int", val |-> n]

\* range(x): x must be an int.
PyRange(x) == IF x.cls = "int" THEN Value(0..(x.val - 1)) ELSE Raise("TypeError")

PySet(S) == [cls |-> "set", elems |-> S]

Step(start_state, move, jump, land, final_state) ==
    [cls |-> "Step", start_state |-> start_state, move |-> move, jump |-> jump,
     land |-> land, final_state |-> final_state]

\* Step.validate: start_valid and final_valid.
Step_validate(s) ==
    LET start_valid == s.move \in s.start_state /\ s.jump \in s.start_state
                       /\ s.land \notin s.start_state
        final_valid == s.move \notin s.final_state /\ s.jump \notin s.final_state
                       /\ s.land \in s.final_state
    IN start_valid /\ final_valid

\* Board(transitions, nodes, edges, directions); transitions[n] is a function
\* whose domain is the set of directions populated for node n.
Board(transitions, nodes, directions) ==
    [transitions |-> transitions, nodes |-> nodes,
     edges |-> LET RECURSIVE Sum(_)
                   Sum(N) == IF N = {} THEN 0
                             ELSE LET n == Min(N)
                                  IN Cardinality(DOMAIN transitions[n]) + Sum(N \ {n})
               IN Sum(DOMAIN transitions),
     directions |-> directions]

----------------------------------------------------------------------------
(* board.py: the move generator *)

\* Board.transit: self.transitions[node][direction]; a dict subscript with a
\* key the dict does not hold raises KeyError.
transit(b, node, direction) ==
    IF node \notin DOMAIN b.transitions THEN Raise("KeyError")
    ELSE IF direction \notin DOMAIN b.transitions[node] THEN Raise("KeyError")
    ELSE Value(b.transitions[node][direction])

\* self.direction read on a Board instance: the dataclass field is named
\* `directions`, so the name `direction` finds the method itself.
self_direction == [cls |-> "method", name |-> "Board.direction"]

\* Board.direction: for dir in range(self.direction): the first dir with
\* transit(loc_a, dir) == loc_b is returned, None after the loop.
direction(b, loc_a, loc_b) ==
    LET r == PyRange(self_direction)
        RECURSIVE Loop(_)
        Loop(dir) ==
            IF dir \notin r.value THEN Value(None)
            ELSE LET t == transit(b, loc_a, dir)
                 IN IF t.raised # "" THEN Raise(t.raised)
                    ELSE IF t.value = loc_b THEN Value(PyInt(dir))
                    ELSE Loop(dir + 1)
    IN IF r.raised # "" THEN Raise(r.raised) ELSE Loop(0)

\* Board.validate, statement by statement; an exception raised by direction
\* or transit leaves the method.
validate(b, step) ==
    LET dir == direction(b, step.move, step.jump)
    IN IF dir.raised # "" THEN Raise(dir.raised)
       ELSE IF dir.value = None THEN Value(FALSE)
       ELSE LET jump == transit(b, step.move, dir.value.val)
            IN IF jump.raised # "" THEN Raise(jump.raised)
               ELSE LET rest == transit(b, jump.value, dir.value.val)
                    IN IF rest.raised # "" THEN Raise(rest.raised)
                       ELSE IF jump.value # step.jump \/ rest.value # step.land
                            THEN Value(FALSE)
                       ELSE Value(Step_validate(step))

\* do_move without the test `if land in state: return None` (final_state.add
\* of a peg already there changes nothing).
do_move_land_unchecked(b, state, move, dir, jump) ==
    IF jump \notin state THEN None
    ELSE LET transits1 == b.transitions[jump]
         IN IF dir \notin DOMAIN transits1 THEN None
            ELSE LET land == transits1[dir]
                 IN Step(state, move, jump, land,
                         ((state \ {move}) \ {jump}) \cup {land})

\* do_move with `final_state.remove(move)` left out: the moving peg also stays
\* where it was.
do_move_move_kept(b, state, move, dir, jump) ==
    IF jump \notin state THEN None
    ELSE LET transits1 == b.transitions[jump]
         IN IF dir \notin DOMAIN transits1 THEN None
            ELSE LET land == transits1[dir]
                 IN IF land \in state THEN None
                    ELSE Step(state, move, jump, land, (state \ {jump}) \cup {land})

\* do_move with `final_state.remove(jump)` left out: the jumped peg stays.
do_move_jump_kept(b, state, move, dir, jump) ==
    IF jump \notin state THEN None
    ELSE LET transits1 == b.transitions[jump]
         IN IF dir \notin DOMAIN transits1 THEN None
            ELSE LET land == transits1[dir]
                 IN IF land \in state THEN None
                    ELSE Step(state, move, jump, land, (state \ {move}) \cup {land})

\* Board.do_move, with the same early returns in the same order.
do_move(b, state, move, dir, jump) ==
    IF jump \notin state THEN None
    ELSE LET transits1 == b.transitions[jump]
         IN IF dir \notin DOMAIN transits1 THEN None
            ELSE LET land == transits1[dir]
                 IN IF land \in state THEN None
                    ELSE Step(state, move, jump, land,
                              ((state \ {move}) \ {jump}) \cup {land})

\* The list comprehension of Board.moves before the filter: one entry per
\* (move, dir) with move in the state and dir populated for move.
move_list(b, start_state) ==
    LET PerMove(move) ==
            LET dirs == SortedSeq(DOMAIN b.transitions[move])
            IN [i \in 1..Len(dirs) |->
                   do_move(b, start_state, move, dirs[i], b.transitions[move][dirs[i]])]
        ms == SortedSeq(start_state)
    IN Flatten([i \in 1..Len(ms) |-> PerMove(ms[i])])

\* moves keeping only the first Step of each final state, as solver.moves does
\* with `if next_state not in move_list`.
moves_first_per_state(b, start_state) ==
    LET all == SelectSeq(move_list(b, start_state), LAMBDA x : x # None)
        Kept == {i \in 1..Len(all) :
                    \A k \in 1..(i - 1) : all[k].final_state # all[i].final_state}
        idx == SortedSeq(Kept)
    IN [i \in 1..Len(idx) |-> all[idx[i]]]

\* Board.moves: the entries of move_list that are not None, in order.
moves(b, start_state) == SelectSeq(move_list(b, start_state), LAMBDA x : x # None)

\* Board.moves on a Board whose transitions dict may lack a node: the
\* subscript self.transitions[move] of the comprehension and the subscript
\* self.transitions[jump] of do_move raise KeyError for a node without entry.
Board_moves(b, start_state) ==
    LET absent_move == \E move \in start_state : move \notin DOMAIN b.transitions
        absent_jump ==
            \E move \in start_state \cap DOMAIN b.transitions :
                \E dir \in DOMAIN b.transitions[move] :
                    /\ b.transitions[move][dir] \in start_state
                    /\ b.transitions[move][dir] \notin DOMAIN b.transitions
    IN IF absent_move \/ absent_jump THEN Raise("KeyError")
       ELSE Value(moves(b, start_state))

\* next_paths generating the moves from the state the last Step started in.
next_paths_from_start_state(b, path) ==
    LET ms == moves(b, Last(path).start_state)
    IN [i \in 1..Len(ms) |-> Append(path, ms[i])]

\* next_paths appending every Step to the one list it was given, without
\* path.copy(): each returned path is that list, holding all the Steps.
next_paths_shared(b, path) ==
    LET ms == moves(b, Last(path).final_state)
    IN [i \in 1..Len(ms) |-> path \o ms]

\* Board.next_paths: path + [i] for every i of moves(path[-1].final_state).
next_paths(b, path) ==
    LET ms == moves(b, Last(path).final_state)
    IN [i \in 1..Len(ms) |-> Append(path, ms[i])]

----------------------------------------------------------------------------
(* solver.py: the function-based move generator, pickers and checkers *)

\* solver.moves without the test `if next_state not in move_list`.
solver_moves_all(state, b) ==
    LET locs == SortedSeq(state)
        Pairs(location) ==
            LET dirs == SortedSeq(DOMAIN b.transitions[location])
            IN [i \in 1..Len(dirs) |-> <<location, dirs[i]>>]
        pairs == Flatten([i \in 1..Len(locs) |-> Pairs(locs[i])])
        RECURSIVE Loop(_, _)
        Loop(i, acc) ==
            IF i > Len(pairs) THEN acc
            ELSE LET location == pairs[i][1]
                     dir == pairs[i][2]
                     node == b.transitions[location][dir]
                 IN IF node \notin state THEN Loop(i + 1, acc)
                    ELSE LET transits1 == b.transitions[node]
                         IN IF dir \notin DOMAIN transits1 THEN Loop(i + 1, acc)
                            ELSE IF transits1[dir] \in state THEN Loop(i + 1, acc)
                            ELSE Loop(i + 1, Append(acc,
                                     ((state \ {location}) \ {node}) \cup {transits1[dir]}))
    IN Loop(1, <<>>)

\* solver.moves: for location in state, for (dir, node) of its transitions,
\* the same three skips as do_move; the next state is appended only when it
\* is not already in move_list.
solver_moves(state, b) ==
    LET locs == SortedSeq(state)
        Pairs(location) ==
            LET dirs == SortedSeq(DOMAIN b.transitions[location])
            IN [i \in 1..Len(dirs) |-> <<location, dirs[i]>>]
        pairs == Flatten([i \in 1..Len(locs) |-> Pairs(locs[i])])
        RECURSIVE Loop(_, _)
        Loop(i, acc) ==
            IF i > Len(pairs) THEN acc
            ELSE LET location == pairs[i][1]
                     dir == pairs[i][2]
                     node == b.transitions[location][dir]
                 IN IF node \notin state THEN Loop(i + 1, acc)
                    ELSE LET transits1 == b.transitions[node]
                         IN IF dir \notin DOMAIN transits1 THEN Loop(i + 1, acc)
                            ELSE IF transits1[dir] \in state THEN Loop(i + 1, acc)
                            ELSE LET next_state ==
                                         ((state \ {location}) \ {node}) \cup {transits1[dir]}
                                 IN IF next_state \in Range(acc) THEN Loop(i + 1, acc)
                                    ELSE Loop(i + 1, Append(acc, next_state))
    IN Loop(1, <<>>)

\* solver.next_paths over paths of states.
solver_next_paths(path, b) ==
    LET ms == solver_moves(Last(path).elems, b)
    IN [i \in 1..Len(ms) |-> Append(path, PySet(ms[i]))]

\* pick_next_depth_first returning the whole list as the remainder.
pick_next_depth_first_kept(cands) == <<cands[Len(cands)], cands>>

\* pick_next_depth_first: candidates[-1], candidates[:-1]
pick_next_depth_first(cands) ==
    <<cands[Len(cands)], SubSeq(cands, 1, Len(cands) - 1)>>

\* pick_next_breadth_first returning the remainder back to front.
pick_next_breadth_first_reversed(cands) ==
    <<cands[1], [i \in 1..(Len(cands) - 1) |-> cands[Len(cands) + 1 - i]]>>

\* pick_next_breadth_first: candidates[0], candidates[1:]
pick_next_breadth_first(cands) ==
    <<cands[1], SubSeq(cands, 2, Len(cands))>>

Pick(p, cands) ==
    IF p = DEPTH_FIRST THEN pick_next_depth_first(cands)
    ELSE pick_next_breadth_first(cands)

\* obj == finish where finish is a set: a Step is a dataclass whose __eq__
\* answers NotImplemented for another class, so the comparison is False.
PyEqSet(obj, S) == obj.cls = "set" /\ obj.elems = S

\* len(obj): a set has a length, a Step (slots dataclass) has none.
PyLen(obj) ==
    IF obj.cls = "set" THEN Value(Cardinality(obj.elems)) ELSE Raise("TypeError")

\* check_solution_state reading the first element of the path: path[0] == finish
check_solution_state_first(path, finish) == Value(PyEqSet(path[1], finish))

\* check_solution_state: path[-1] == finish
check_solution_state(path, finish) == Value(PyEqSet(Last(path), finish))

\* check_solution_count without the comparison of the length with
\* final_count: any state without a legal move passes.
check_solution_count_any_count(path, b, final_count) ==
    LET n == PyLen(Last(path))
    IN IF n.raised # "" THEN Raise(n.raised)
       ELSE Value(Len(solver_moves(Last(path).elems, b)) = 0)

\* check_solution_count:
\*   len(path[-1]) == final_count and len(moves(state=path[-1], board=board)) == 0
check_solution_count(path, b, final_count) ==
    LET n == PyLen(Last(path))
    IN IF n.raised # "" THEN Raise(n.raised)
       ELSE IF n.value # final_count THEN Value(FALSE)
       ELSE Value(Len(solver_moves(Last(path).elems, b)) = 0)

\* A board.Checker (Callable[[StepList], bool]) written by the caller of
\* Board.solve for paths of Steps:  lambda path: path[-1].final_state == finish
CALLER == "CALLER"

caller_checker(path, finish) ==
    IF Last(path).cls = "Step" THEN Value(Last(path).final_state = finish)
    ELSE Raise("AttributeError")

\* The callable handed to the executive as `checker`: a functools.partial of
\* one of the two checkers of solver.py, or the caller's own function.
Check(chk, b, path) ==
    IF chk.method = POSITION THEN check_solution_state(path, chk.finish)
    ELSE IF chk.method = COUNT THEN check_solution_count(path, b, chk.final_count)
    ELSE caller_checker(path, chk.finish)

----------------------------------------------------------------------------
(* Input boards *)

\* Triangle board of test_moves_00.
Triangle ==
    Board(0 :> (0 :> 1 @@ 1 :> 2) @@ 1 :> (0 :> 2 @@ 1 :> 0) @@ 2 :> (0 :> 0 @@ 1 :> 1),
          3, 2)

\* Four-node square board of test_moves_01 and test_executive_00..07.
Square ==
    Board(0 :> (0 :> 1 @@ 1 :> 3) @@ 1 :> (0 :> 2 @@ 1 :> 0) @@
          2 :> (0 :> 3 @@ 1 :> 1) @@ 3 :> (0 :> 0 @@ 1 :> 2),
          4, 2)

\* Five-node ring board of test_executive_10..16.
Pentagon ==
    Board(0 :> (0 :> 1 @@ 1 :> 4) @@ 1 :> (0 :> 2 @@ 1 :> 0) @@ 2 :> (0 :> 3 @@ 1 :> 1) @@
          3 :> (0 :> 4 @@ 1 :> 2) @@ 4 :> (0 :> 0 @@ 1 :> 3),
          5, 2)

NoEdge == [d \in {} |-> 0]

\* A row of four nodes, direction 0 to the right and 1 to the left: a sparse
\* board as get_transitions builds it from a CSV with empty cells.
Row ==
    Board(0 :> (0 :> 1) @@ 1 :> (0 :> 2 @@ 1 :> 0) @@ 2 :> (0 :> 3 @@ 1 :> 1) @@ 3 :> (1 :> 2),
          4, 2)

\* Two directions of node 0 lead to node 1 and both continue to node 2; node 3
\* is reached from 2 over 1 in either direction.
Parallel ==
    Board(0 :> (0 :> 1 @@ 1 :> 1) @@ 1 :> (0 :> 2 @@ 1 :> 2) @@
          2 :> (0 :> 1 @@ 1 :> 1) @@ 3 :> NoEdge,
          4, 2)

\* A self-loop on node 0, a 2-cycle between 1 and 2 in direction 0, a fork at
\* node 1, and the cycle 0 -> 1 -> 2 -> 3 -> 0 in direction 1.
Loops ==
    Board(0 :> (0 :> 0 @@ 1 :> 1) @@ 1 :> (0 :> 2 @@ 1 :> 2) @@
          2 :> (0 :> 1 @@ 1 :> 3) @@ 3 :> (0 :> 0 @@ 1 :> 0),
          4, 2)

SolveBoards == {Triangle, Square, Pentagon, Row, Parallel, Loops}

NodesOf(b) == 0..(b.nodes - 1)

\* Every board read_board can build from a CSV with one row per node of the
\* triangle board and NumDirs columns: a cell holds a node number, or NaN / an
\* out-of-range number (-1 here), which get_transitions leaves out of the
\* row's dict.
GenNodes == NodesOf(Triangle)
GenDirs == 0..(NumDirs - 1)

get_transitions(row, nodes) ==
    [d \in {d \in DOMAIN row : row[d] \in 0..(nodes - 1)} |-> row[d]]

read_board(df) ==
    Board([n \in GenNodes |-> get_transitions(df[n], Cardinality(GenNodes))],
          Cardinality(GenNodes), NumDirs)

GenBoards == {read_board(df) : df \in [GenNodes -> [GenDirs -> GenNodes \cup {-1}]]}

----------------------------------------------------------------------------
(* The calls made on one configuration, as the executive tests make them:
   the same board, start, checker and min_pegs under both pickers and both
   scopes (test_executive_00..07). *)

Calls == << <<DEPTH_FIRST, MULTIPLE>>, <<BREADTH_FIRST, MULTIPLE>>,
            <<DEPTH_FIRST, SINGLE>>, <<BREADTH_FIRST, SINGLE>> >>

Checkers(b) ==
    {[method |-> POSITION, finish |-> S] : S \in SUBSET NodesOf(b)}
    \cup {[method |-> COUNT, final_count |-> n] : n \in 0..b.nodes}

\* Checkers a caller of Board.solve may write themselves.
CallerCheckers(b) == {[method |-> CALLER, finish |-> S] : S \in SUBSET NodesOf(b)}

Init ==
    /\ board \in SolveBoards
    /\ start \in SUBSET NodesOf(board)
    /\ entry \in {"Board.solve", "solve_executive"}
    /\ checker \in Checkers(board)
                    \cup (IF entry = "Board.solve" THEN CallerCheckers(board) ELSE {})
    /\ min_pegs \in 0..board.nodes
    /\ picker = DEPTH_FIRST
    /\ scope = MULTIPLE
    /\ candidates = <<>>
    /\ solutions = <<>>
    /\ pc = "idle"
    /\ log = <<>>
    /\ ret = <<>>

\* The record the harness keeps of a finished call.
Outcome(status, result) ==
    [picker |-> picker, scope |-> scope, status |-> status, result |-> result]

\* config.SolutionScope as solver.py names it: config.py imports enumerations
\* as `en` and binds no name SolutionScope, so the attribute lookup raises.
\* (An interpreter that evaluates annotations when a function is defined meets
\* the same lookup in the signature of solve_executive, while solver.py is
\* imported; the model follows the call from its first statement.)
config_SolutionScope == Raise("AttributeError")

\* The prune test reading the pegs that would be left after one more jump.
PegsOf_after_jump(path) ==
    IF entry = "Board.solve" THEN Cardinality(Last(path).final_state) - 1
    ELSE Cardinality(Last(path).elems) - 1

\* The prune test reading the pegs the last element started from instead of
\* the pegs it ends with (a path of states has no such field: its length).
PegsOf_start(path) ==
    IF entry = "Board.solve" THEN Cardinality(Last(path).start_state)
    ELSE Len(path)

\* Number of pegs the prune test reads from the picked path:
\* len(next[-1].final_state) in Board.solve, len(next[-1]) in solve_executive.
PegsOf(path) ==
    IF entry = "Board.solve" THEN Cardinality(Last(path).final_state)
    ELSE Cardinality(Last(path).elems)

\* Entry of a call: candidates and solutions are initialised.
\*   Board.solve:     candidates = [[x] for x in self.moves(start_state=start)]
\*   solve_executive: candidates = next_paths(path=[start], board=board)
Call ==
    /\ pc # "loop"
    /\ pc # "moves"
    /\ Len(log) < Len(Calls)
    /\ picker' = Calls[Len(log) + 1][1]
    /\ scope' = Calls[Len(log) + 1][2]
    /\ candidates' =
          IF entry = "Board.solve"
          THEN LET ms == moves(board, start) IN [i \in 1..Len(ms) |-> <<ms[i]>>]
          ELSE solver_next_paths(<<PySet(start)>>, board)
    /\ solutions' = <<>>
    /\ pc' = "loop"
    /\ UNCHANGED <<board, start, entry, checker, min_pegs, log, ret>>

\* while len(candidates) > 0 fails: return solutions
Return ==
    /\ pc = "loop"
    /\ Len(candidates) = 0
    /\ pc' = "returned"
    /\ log' = Append(log, Outcome("returned", solutions))
    /\ UNCHANGED <<board, start, entry, checker, min_pegs, picker, scope,
                   candidates, solutions, ret>>

\* One iteration that ends at `continue`: the picked path has fewer than
\* min_pegs pegs.
Prune ==
    /\ pc = "loop"
    /\ Len(candidates) > 0
    /\ LET picked == Pick(picker, candidates)
       IN /\ PegsOf(picked[1]) < min_pegs
          /\ candidates' = picked[2]
    /\ UNCHANGED <<board, start, entry, checker, min_pegs, picker, scope,
                   solutions, pc, log, ret>>

\* One iteration in which the checker raises: the exception leaves the call.
CheckerRaises ==
    /\ pc = "loop"
    /\ Len(candidates) > 0
    /\ LET picked == Pick(picker, candidates)
           res == Check(checker, board, picked[1])
       IN /\ ~(PegsOf(picked[1]) < min_pegs)
          /\ res.raised # ""
          /\ candidates' = picked[2]
          /\ pc' = res.raised
          /\ log' = Append(log, Outcome(res.raised, <<>>))
    /\ UNCHANGED <<board, start, entry, checker, min_pegs, picker, scope,
                   solutions, ret>>

\* Match putting the new solution in front of the recorded ones.
Match_prepend ==
    /\ pc = "loop"
    /\ Len(candidates) > 0
    /\ LET picked == Pick(picker, candidates)
           res == Check(checker, board, picked[1])
           found == <<picked[1]>> \o solutions
           single == IF entry = "Board.solve" THEN Value(scope = SINGLE)
                     ELSE IF config_SolutionScope.raised # ""
                          THEN Raise(config_SolutionScope.raised)
                          ELSE Value(scope = SINGLE)
       IN /\ ~(PegsOf(picked[1]) < min_pegs)
          /\ res.raised = ""
          /\ res.value
          /\ candidates' = picked[2]
          /\ solutions' = found
          /\ IF single.raised # ""
             THEN /\ pc' = single.raised
                  /\ log' = Append(log, Outcome(single.raised, <<>>))
             ELSE IF single.value
             THEN /\ pc' = "returned"
                  /\ log' = Append(log, Outcome("returned", found))
             ELSE UNCHANGED <<pc, log>>
    /\ UNCHANGED <<board, start, entry, checker, min_pegs, picker, scope, ret>>

\* Match that also appends the extensions of the recorded path to the
\* candidates.
Match_expand ==
    /\ pc = "loop"
    /\ Len(candidates) > 0
    /\ LET picked == Pick(picker, candidates)
           res == Check(checker, board, picked[1])
           found == Append(solutions, picked[1])
           single == IF entry = "Board.solve" THEN Value(scope = SINGLE)
                     ELSE IF config_SolutionScope.raised # ""
                          THEN Raise(config_SolutionScope.raised)
                          ELSE Value(scope = SINGLE)
       IN /\ ~(PegsOf(picked[1]) < min_pegs)
          /\ res.raised = ""
          /\ res.value
          /\ candidates' = picked[2] \o
                 (IF entry = "Board.solve" THEN next_paths(board, picked[1])
                  ELSE solver_next_paths(picked[1], board))
          /\ solutions' = found
          /\ IF single.raised # ""
             THEN /\ pc' = single.raised
                  /\ log' = Append(log, Outcome(single.raised, <<>>))
             ELSE IF single.value
             THEN /\ pc' = "returned"
                  /\ log' = Append(log, Outcome("returned", found))
             ELSE UNCHANGED <<pc, log>>
    /\ UNCHANGED <<board, start, entry, checker, min_pegs, picker, scope, ret>>

\* One iteration in which the checker answers True: the path is appended to
\* solutions, then the scope is tested.  Board.solve compares with
\* en.SolutionScope.SINGLE and returns; solve_executive evaluates
\* config.SolutionScope.SINGLE.
Match ==
    /\ pc = "loop"
    /\ Len(candidates) > 0
    /\ LET picked == Pick(picker, candidates)
           res == Check(checker, board, picked[1])
           found == Append(solutions, picked[1])
           single == IF entry = "Board.solve" THEN Value(scope = SINGLE)
                     ELSE IF config_SolutionScope.raised # ""
                          THEN Raise(config_SolutionScope.raised)
                          ELSE Value(scope = SINGLE)
       IN /\ ~(PegsOf(picked[1]) < min_pegs)
          /\ res.raised = ""
          /\ res.value
          /\ candidates' = picked[2]
          /\ solutions' = found
          /\ IF single.raised # ""
             THEN /\ pc' = single.raised
                  /\ log' = Append(log, Outcome(single.raised, <<>>))
             ELSE IF single.value
             THEN /\ pc' = "returned"
                  /\ log' = Append(log, Outcome("returned", found))
             ELSE UNCHANGED <<pc, log>>
    /\ UNCHANGED <<board, start, entry, checker, min_pegs, picker, scope, ret>>

\* Expand putting the picked path itself back at the head of the candidates
\* instead of appending its extensions.
Expand_requeue ==
    /\ pc = "loop"
    /\ Len(candidates) > 0
    /\ LET picked == Pick(picker, candidates)
           res == Check(checker, board, picked[1])
       IN /\ ~(PegsOf(picked[1]) < min_pegs)
          /\ res.raised = ""
          /\ ~res.value
          /\ candidates' = <<picked[1]>> \o picked[2]
    /\ UNCHANGED <<board, start, entry, checker, min_pegs, picker, scope,
                   solutions, pc, log, ret>>

\* Expand putting the extensions in front of the candidates instead of
\* behind them.
Expand_in_front ==
    /\ pc = "loop"
    /\ Len(candidates) > 0
    /\ LET picked == Pick(picker, candidates)
           res == Check(checker, board, picked[1])
       IN /\ ~(PegsOf(picked[1]) < min_pegs)
          /\ res.raised = ""
          /\ ~res.value
          /\ candidates' =
                 (IF entry = "Board.solve" THEN next_paths(board, picked[1])
                  ELSE solver_next_paths(picked[1], board)) \o picked[2]
    /\ UNCHANGED <<board, start, entry, checker, min_pegs, picker, scope,
                   solutions, pc, log, ret>>

\* One iteration in which the checker answers False: the extensions of the
\* picked path are appended to the candidates.
Expand ==
    /\ pc = "loop"
    /\ Len(candidates) > 0
    /\ LET picked == Pick(picker, candidates)
           res == Check(checker, board, picked[1])
       IN /\ ~(PegsOf(picked[1]) < min_pegs)
          /\ res.raised = ""
          /\ ~res.value
          /\ candidates' = picked[2] \o
                 (IF entry = "Board.solve" THEN next_paths(board, picked[1])
                  ELSE solver_next_paths(picked[1], board))
    /\ UNCHANGED <<board, start, entry, checker, min_pegs, picker, scope,
                   solutions, pc, log, ret>>

Next == Call \/ Return \/ Prune \/ CheckerRaises \/ Match \/ Expand

Spec == Init /\ [][Next]_vars

----------------------------------------------------------------------------
(* Runs under fairness.  The arguments of the calls are chosen one by one in
   the first steps, so that all runs start from one state.  The executive is
   sequential code: a call that is in its loop takes its next step. *)

InitLive ==
    /\ board = Triangle
    /\ start = {}
    /\ entry = "Board.solve"
    /\ checker = [method |-> COUNT, final_count |-> 0]
    /\ min_pegs = 0
    /\ picker = DEPTH_FIRST
    /\ scope = MULTIPLE
    /\ candidates = <<>>
    /\ solutions = <<>>
    /\ pc = "choose board"
    /\ log = <<>>
    /\ ret = <<>>

Choosing == {"choose board", "choose start", "choose entry", "choose checker",
             "choose min_pegs"}

ChooseBoard ==
    /\ pc = "choose board"
    /\ board' \in SolveBoards
    /\ pc' = "choose start"
    /\ UNCHANGED <<start, entry, checker, min_pegs, picker, scope,
                   candidates, solutions, log, ret>>

ChooseStart ==
    /\ pc = "choose start"
    /\ start' \in SUBSET NodesOf(board)
    /\ pc' = "choose entry"
    /\ UNCHANGED <<board, entry, checker, min_pegs, picker, scope,
                   candidates, solutions, log, ret>>

ChooseEntry ==
    /\ pc = "choose entry"
    /\ entry' \in {"Board.solve", "solve_executive"}
    /\ pc' = "choose checker"
    /\ UNCHANGED <<board, start, checker, min_pegs, picker, scope,
                   candidates, solutions, log, ret>>

ChooseChecker ==
    /\ pc = "choose checker"
    /\ checker' \in Checkers(board)
                     \cup (IF entry = "Board.solve" THEN CallerCheckers(board) ELSE {})
    /\ pc' = "choose min_pegs"
    /\ UNCHANGED <<board, start, entry, min_pegs, picker, scope,
                   candidates, solutions, log, ret>>

ChooseMinPegs ==
    /\ pc = "choose min_pegs"
    /\ min_pegs' \in 0..board.nodes
    /\ pc' = "idle"
    /\ UNCHANGED <<board, start, entry, checker, picker, scope,
                   candidates, solutions, log, ret>>

NextLive ==
    \/ ChooseBoard \/ ChooseStart \/ ChooseEntry \/ ChooseChecker \/ ChooseMinPegs
    \/ (pc \notin Choosing /\ Next)

\* A step of a running call.  In a state with pc = "loop" one of Return,
\* Prune, CheckerRaises, Match and Expand is enabled (their guards cover
\* every case of the loop's tests) and changes pc or the candidates, so
\* ENABLED <<LoopStep>>_vars is pc = "loop".
LoopStep == pc = "loop" /\ Next

\* Weak fairness of the choices and of LoopStep; for LoopStep it is written
\* out, []<>~ENABLED <<A>>_v \/ []<><<A>>_v, with the enabling condition above.
SpecLive ==
    /\ InitLive
    /\ [][NextLive]_vars
    /\ WF_vars(ChooseBoard \/ ChooseStart \/ ChooseEntry \/ ChooseChecker \/ ChooseMinPegs)
    /\ ([]<>(pc # "loop") \/ []<><<LoopStep>>_vars)

----------------------------------------------------------------------------
(* Move-generator runs: Board.moves applied to every state of every board
   read_board can build within the bounds. *)

InitMoves ==
    /\ board \in GenBoards
    /\ start \in SUBSET NodesOf(board)
    /\ entry = "Board.moves"
    /\ checker = [method |-> COUNT, final_count |-> 0]
    /\ min_pegs = 0
    /\ picker = DEPTH_FIRST
    /\ scope = MULTIPLE
    /\ candidates = <<>>
    /\ solutions = <<>>
    /\ pc = "idle"
    /\ log = <<>>
    /\ ret = <<>>

CallMoves ==
    /\ pc = "idle"
    /\ ret' = moves(board, start)
    /\ pc' = "moves"
    /\ UNCHANGED <<board, start, entry, checker, min_pegs, picker, scope,
                   candidates, solutions, log>>

NextMoves == CallMoves

SpecMoves == InitMoves /\ [][NextMoves]_vars

----------------------------------------------------------------------------
(* Runs of both move generators on the same board and state: ret keeps the
   list of Steps of Board.moves and the list of states of solver.moves. *)

\* The triangle board with a fourth node whose direction 1 leads to node 0:
\* from {0, 1, 3} two jumps end in {2, 3} and a third one in {1, 2}.
Spur ==
    Board(0 :> (0 :> 1 @@ 1 :> 2) @@ 1 :> (0 :> 2 @@ 1 :> 0) @@
          2 :> (0 :> 0 @@ 1 :> 1) @@ 3 :> (1 :> 0),
          4, 2)

InitGenerators ==
    /\ board \in GenBoards \cup SolveBoards \cup {Spur}
    /\ start \in SUBSET NodesOf(board)
    /\ entry = "moves"
    /\ checker = [method |-> COUNT, final_count |-> 0]
    /\ min_pegs = 0
    /\ picker = DEPTH_FIRST
    /\ scope = MULTIPLE
    /\ candidates = <<>>
    /\ solutions = <<>>
    /\ pc = "idle"
    /\ log = <<>>
    /\ ret = <<>>

CallBothMoves ==
    /\ pc = "idle"
    /\ ret' = [board_moves |-> moves(board, start),
               solver_moves |-> solver_moves(start, board)]
    /\ pc' = "both moves"
    /\ UNCHANGED <<board, start, entry, checker, min_pegs, picker, scope,
                   candidates, solutions, log>>

NextGenerators == CallBothMoves

SpecGenerators == InitGenerators /\ [][NextGenerators]_vars

----------------------------------------------------------------------------
(* Move-generator runs on Board instances constructed directly, as the tests
   construct them: the transitions dict holds an entry for some of the nodes
   only; every destination is a node of the board. *)

DirectBoards ==
    {Board([n \in N |-> b.transitions[n]], b.nodes, b.directions) :
        b \in GenBoards, N \in SUBSET GenNodes}

InitDirect ==
    /\ board \in DirectBoards
    /\ start \in SUBSET NodesOf(board)
    /\ entry = "Board.moves"
    /\ checker = [method |-> COUNT, final_count |-> 0]
    /\ min_pegs = 0
    /\ picker = DEPTH_FIRST
    /\ scope = MULTIPLE
    /\ candidates = <<>>
    /\ solutions = <<>>
    /\ pc = "idle"
    /\ log = <<>>
    /\ ret = <<>>

\* ret records the outcome of the call: the list of Steps or the exception.
CallMovesDirect ==
    /\ pc = "idle"
    /\ ret' = Board_moves(board, start)
    /\ pc' = "moves direct"
    /\ UNCHANGED <<board, start, entry, checker, min_pegs, picker, scope,
                   candidates, solutions, log>>

NextDirect == CallMovesDirect

SpecDirect == InitDirect /\ [][NextDirect]_vars

----------------------------------------------------------------------------
(* Object runs: Board.solve with the set objects kept in a heap.  h[a] is the
   content of the set object at address a; a Step holds the addresses of its
   start_state and final_state.  Address 1 is the caller's start set. *)

\* do_move with every statement on final_state applied to the caller's state
\* object itself (final_state = state, no copy).
do_move_obj_in_place(h, b, state, move, dir, jump) ==
    IF jump \notin h[state] THEN [heap |-> h, step |-> None]
    ELSE LET transits1 == b.transitions[jump]
         IN IF dir \notin DOMAIN transits1 THEN [heap |-> h, step |-> None]
            ELSE LET land == transits1[dir]
                 IN IF land \in h[state] THEN [heap |-> h, step |-> None]
                    ELSE LET final_state == state
                             h2 == [h EXCEPT ![final_state] = @ \ {move}]
                             h3 == [h2 EXCEPT ![final_state] = @ \ {jump}]
                             h4 == [h3 EXCEPT ![final_state] = @ \cup {land}]
                         IN [heap |-> h4,
                             step |-> Step(state, move, jump, land, final_state)]

\* Board.do_move on objects: state.copy() allocates a new set object, the
\* two remove calls and the add call change that object, and the Step keeps
\* the caller's object as start_state and the new one as final_state.
do_move_obj(h, b, state, move, dir, jump) ==
    IF jump \notin h[state] THEN [heap |-> h, step |-> None]
    ELSE LET transits1 == b.transitions[jump]
         IN IF dir \notin DOMAIN transits1 THEN [heap |-> h, step |-> None]
            ELSE LET land == transits1[dir]
                 IN IF land \in h[state] THEN [heap |-> h, step |-> None]
                    ELSE LET final_state == Len(h) + 1
                             h1 == Append(h, h[state])
                             h2 == [h1 EXCEPT ![final_state] = @ \ {move}]
                             h3 == [h2 EXCEPT ![final_state] = @ \ {jump}]
                             h4 == [h3 EXCEPT ![final_state] = @ \cup {land}]
                         IN [heap |-> h4,
                             step |-> Step(state, move, jump, land, final_state)]

\* Board.moves on objects: the comprehension calls do_move for every move of
\* the state object and every populated direction of the move, in order, and
\* keeps the results that are not None.
moves_obj(h, b, start_state) ==
    LET ms == SortedSeq(h[start_state])
        Pairs(move) ==
            LET dirs == SortedSeq(DOMAIN b.transitions[move])
            IN [i \in 1..Len(dirs) |-> <<move, dirs[i], b.transitions[move][dirs[i]]>>]
        pairs == Flatten([i \in 1..Len(ms) |-> Pairs(ms[i])])
        RECURSIVE Loop(_, _, _)
        Loop(i, hh, acc) ==
            IF i > Len(pairs) THEN [heap |-> hh, steps |-> acc]
            ELSE LET r == do_move_obj(hh, b, start_state,
                                      pairs[i][1], pairs[i][2], pairs[i][3])
                 IN Loop(i + 1, r.heap,
                         IF r.step.cls = "NoneType" THEN acc ELSE Append(acc, r.step))
    IN Loop(1, h, <<>>)

\* Board.next_paths on objects.
next_paths_obj(h, b, path) ==
    LET r == moves_obj(h, b, Last(path).final_state)
    IN [heap |-> r.heap,
        paths |-> [i \in 1..Len(r.steps) |-> Append(path, r.steps[i])]]

\* The caller's checker reading the set object of the last Step.
caller_checker_obj(h, path, finish) == h[Last(path).final_state] = finish

InitObjects ==
    /\ board \in SolveBoards
    /\ start \in SUBSET NodesOf(board)
    /\ entry = "Board.solve"
    /\ checker \in CallerCheckers(board)
    /\ min_pegs \in 0..board.nodes
    /\ picker \in {DEPTH_FIRST, BREADTH_FIRST}
    /\ scope \in {SINGLE, MULTIPLE}
    /\ candidates = <<>>
    /\ solutions = <<>>
    /\ pc = "idle"
    /\ log = <<>>
    /\ ret = <<start>>

\* candidates = [[x] for x in self.moves(start_state=start)]; solutions = []
CallObjects ==
    /\ pc = "idle"
    /\ LET r == moves_obj(ret, board, 1)
       IN /\ candidates' = [i \in 1..Len(r.steps) |-> <<r.steps[i]>>]
          /\ ret' = r.heap
    /\ solutions' = <<>>
    /\ pc' = "loop"
    /\ UNCHANGED <<board, start, entry, checker, min_pegs, picker, scope, log>>

\* One iteration of the while loop: pick, prune test, checker, then the
\* record and the scope test, or the expansion.
IterateObjects ==
    /\ pc = "loop"
    /\ Len(candidates) > 0
    /\ LET picked == Pick(picker, candidates)
           next == picked[1]
       IN IF Cardinality(ret[Last(next).final_state]) < min_pegs
          THEN /\ candidates' = picked[2]
               /\ UNCHANGED <<solutions, pc, ret>>
          ELSE IF caller_checker_obj(ret, next, checker.finish)
          THEN /\ candidates' = picked[2]
               /\ solutions' = Append(solutions, next)
               /\ pc' = IF scope = SINGLE THEN "returned" ELSE pc
               /\ ret' = ret
          ELSE LET r == next_paths_obj(ret, board, next)
               IN /\ candidates' = picked[2] \o r.paths
                  /\ ret' = r.heap
                  /\ UNCHANGED <<solutions, pc>>
    /\ UNCHANGED <<board, start, entry, checker, min_pegs, picker, scope, log>>

\* while len(candidates) > 0 fails: return solutions
ReturnObjects ==
    /\ pc = "loop"
    /\ Len(candidates) = 0
    /\ pc' = "returned"
    /\ UNCHANGED <<board, start, entry, checker, min_pegs, picker, scope,
                   candidates, solutions, log, ret>>

NextObjects == CallObjects \/ IterateObjects \/ ReturnObjects

SpecObjects == InitObjects /\ [][NextObjects]_vars

----------------------------------------------------------------------------
(* Checker runs: the two checkers of solver.py called twice in a row on a
   path of the initial frontier of either executive, with the set objects
   kept in a heap.  A path of solve_executive holds references to set
   objects, a path of Board.solve holds Steps. *)

SetRef(a) == [cls |-> "set", addr |-> a]

\* solver.moves on objects: state.copy() allocates next_state, the two remove
\* calls and the add call change that object, and it is appended to
\* move_list unless a set equal to it is already there.
solver_moves_obj(h, state, b) ==
    LET locs == SortedSeq(h[state])
        Pairs(location) ==
            LET dirs == SortedSeq(DOMAIN b.transitions[location])
            IN [i \in 1..Len(dirs) |-> <<location, dirs[i]>>]
        pairs == Flatten([i \in 1..Len(locs) |-> Pairs(locs[i])])
        RECURSIVE Loop(_, _, _)
        Loop(i, hh, acc) ==
            IF i > Len(pairs) THEN [heap |-> hh, move_list |-> acc]
            ELSE LET location == pairs[i][1]
                     dir == pairs[i][2]
                     node == b.transitions[location][dir]
                 IN IF node \notin hh[state] THEN Loop(i + 1, hh, acc)
                    ELSE LET transits1 == b.transitions[node]
                         IN IF dir \notin DOMAIN transits1 THEN Loop(i + 1, hh, acc)
                            ELSE IF transits1[dir] \in hh[state] THEN Loop(i + 1, hh, acc)
                            ELSE LET next_state == Len(hh) + 1
                                     h1 == Append(hh, hh[state])
                                     h2 == [h1 EXCEPT ![next_state] = @ \ {location}]
                                     h3 == [h2 EXCEPT ![next_state] = @ \ {node}]
                                     h4 == [h3 EXCEPT ![next_state] = @ \cup {transits1[dir]}]
                                 IN IF \E k \in 1..Len(acc) : h4[acc[k]] = h4[next_state]
                                    THEN Loop(i + 1, h4, acc)
                                    ELSE Loop(i + 1, h4, Append(acc, next_state))
    IN Loop(1, h, <<>>)

\* solver.next_paths on objects.
solver_next_paths_obj(h, path, b) ==
    LET r == solver_moves_obj(h, Last(path).addr, b)
    IN [heap |-> r.heap,
        paths |-> [i \in 1..Len(r.move_list) |-> Append(path, SetRef(r.move_list[i]))]]

\* check_solution_state on objects: path[-1] == finish reads the set object.
check_solution_state_obj(h, path, finish) ==
    [heap |-> h,
     out |-> Value(Last(path).cls = "set" /\ h[Last(path).addr] = finish)]

\* check_solution_count on objects: len(path[-1]), then moves on the set
\* object; the sets moves builds are local to the call and gone at return.
check_solution_count_obj(h, path, b, final_count) ==
    IF Last(path).cls # "set" THEN [heap |-> h, out |-> Raise("TypeError")]
    ELSE IF Cardinality(h[Last(path).addr]) # final_count
    THEN [heap |-> h, out |-> Value(FALSE)]
    ELSE LET r == solver_moves_obj(h, Last(path).addr, b)
         IN [heap |-> SubSeq(r.heap, 1, Len(h)),
             out |-> Value(Len(r.move_list) = 0)]

Check_obj(h, chk, b, path) ==
    IF chk.method = POSITION THEN check_solution_state_obj(h, path, chk.finish)
    ELSE check_solution_count_obj(h, path, b, chk.final_count)

\* The frontier either executive builds at its entry, on objects.
InitialFrontier(b, S, e) ==
    IF e = "Board.solve"
    THEN LET r == moves_obj(<<S>>, b, 1)
         IN [heap |-> r.heap, paths |-> [i \in 1..Len(r.steps) |-> <<r.steps[i]>>]]
    ELSE solver_next_paths_obj(<<S>>, <<SetRef(1)>>, b)

InitChecker ==
    /\ board \in SolveBoards
    /\ start \in SUBSET NodesOf(board)
    /\ entry \in {"Board.solve", "solve_executive"}
    /\ checker \in Checkers(board)
    /\ min_pegs = 0
    /\ picker = DEPTH_FIRST
    /\ scope = MULTIPLE
    /\ candidates = InitialFrontier(board, start, entry).paths
    /\ solutions = <<>>
    /\ pc = "idle"
    /\ log = <<>>
    /\ ret = InitialFrontier(board, start, entry).heap

\* The checker is called twice with the same path of the frontier; log keeps
\* the two outcomes, solutions the path it was called with.
CheckTwice ==
    /\ pc = "idle"
    /\ \E i \in 1..Len(candidates) :
          LET c1 == Check_obj(ret, checker, board, candidates[i])
              c2 == Check_obj(c1.heap, checker, board, candidates[i])
          IN /\ log' = <<c1.out, c2.out>>
             /\ ret' = c2.heap
             /\ solutions' = <<candidates[i]>>
    /\ pc' = "checked"
    /\ UNCHANGED <<board, start, entry, checker, min_pegs, picker, scope, candidates>>

NextChecker == CheckTwice

SpecChecker == InitChecker /\ [][NextChecker]_vars

----------------------------------------------------------------------------
(* Picker runs: one call of a picker on a list object.  The heap holds list
   objects: the paths, at addresses 1..n, and behind them the candidate list,
   whose content is the addresses of the paths.  In these runs `candidates`
   is the address of the candidate list. *)

\* candidates.pop() in place of the two subscripts: the list given to the
\* picker loses its last path and is returned as the remainder.
pick_next_depth_first_obj_pop(h, cands) ==
    IF h[cands] = <<>> THEN [heap |-> h, out |-> Raise("IndexError")]
    ELSE [heap |-> [h EXCEPT ![cands] = SubSeq(@, 1, Len(@) - 1)],
          out |-> Value(<<Last(h[cands]), cands>>)]

\* pick_next_depth_first on objects: candidates[-1] is the path object
\* itself, the slice candidates[:-1] is a new list object.
pick_next_depth_first_obj(h, cands) ==
    IF h[cands] = <<>> THEN [heap |-> h, out |-> Raise("IndexError")]
    ELSE [heap |-> Append(h, SubSeq(h[cands], 1, Len(h[cands]) - 1)),
          out |-> Value(<<Last(h[cands]), Len(h) + 1>>)]

\* pick_next_breadth_first on objects: candidates[0] and the new list
\* candidates[1:].
pick_next_breadth_first_obj(h, cands) ==
    IF h[cands] = <<>> THEN [heap |-> h, out |-> Raise("IndexError")]
    ELSE [heap |-> Append(h, SubSeq(h[cands], 2, Len(h[cands]))),
          out |-> Value(<<h[cands][1], Len(h) + 1>>)]

\* The paths of test_depth_first / test_breadth_first and the empty path.
PickPaths == {<<>>, <<{0, 1, 2}>>, <<{0, 1, 2}, {0, 2, 3}>>, <<{0, 1, 2}, {0, 2, 3}, {4, 5, 6}>>}

InitPicker ==
    /\ board = Triangle
    /\ start = {}
    /\ entry = "picker"
    /\ checker = [method |-> COUNT, final_count |-> 0]
    /\ min_pegs = 0
    /\ picker = DEPTH_FIRST
    /\ scope = MULTIPLE
    /\ \E n \in 0..MaxCandidates :
          \E paths \in [1..n -> PickPaths] :
              /\ ret = Append(paths, [i \in 1..n |-> i])
              /\ candidates = n + 1
    /\ solutions = <<>>
    /\ pc = "idle"
    /\ log = <<>>

\* log keeps the outcome of the call: (next, address of the remainder) or
\* the exception.
CallPicker ==
    /\ pc = "idle"
    /\ \E p \in {DEPTH_FIRST, BREADTH_FIRST} :
          LET r == IF p = DEPTH_FIRST THEN pick_next_depth_first_obj(ret, candidates)
                   ELSE pick_next_breadth_first_obj(ret, candidates)
          IN /\ picker' = p
             /\ ret' = r.heap
             /\ log' = <<r.out>>
    /\ pc' = "picked"
    /\ UNCHANGED <<board, start, entry, checker, min_pegs, scope, candidates, solutions>>

NextPicker == CallPicker

SpecPicker == InitPicker /\ [][NextPicker]_vars

----------------------------------------------------------------------------
(* solver.solve: one call on a Config.  In these runs `checker` holds the
   goal fields of the Config, [finish, final_count], and `picker` its method;
   ret keeps the outcome: the arguments handed to solve_executive, or the
   exception. *)

\* config.SearchMethod and config.CheckerMethod as solver.solve names them:
\* config.py binds neither name (it imports enumerations as `en`).
config_SearchMethod == Raise("AttributeError")

config_CheckerMethod == Raise("AttributeError")

\* Config.checker: COUNT if self.finish is None else POSITION
Config_checker(cfg) == IF cfg.finish.cls = "NoneType" THEN COUNT ELSE POSITION

\* solver.solve up to its call of solve_executive: the methods dict, the
\* checkers dict, min_pegs, then the keyword arguments of the call.
solver_solve(cfg) ==
    IF config_SearchMethod.raised # "" THEN Raise(config_SearchMethod.raised)
    ELSE IF config_CheckerMethod.raised # "" THEN Raise(config_CheckerMethod.raised)
    ELSE Value([board |-> cfg.board,
                start |-> cfg.start,
                picker |-> cfg.method,
                checker |-> IF Config_checker(cfg) = COUNT
                            THEN [method |-> COUNT, final_count |-> cfg.final_count]
                            ELSE [method |-> POSITION, finish |-> cfg.finish.elems],
                scope |-> cfg.scope,
                min_pegs |-> IF Config_checker(cfg) = POSITION
                             THEN Cardinality(cfg.finish.elems)
                             ELSE cfg.final_count])

\* The Config of the run.
Cfg ==
    [board |-> board, start |-> start, method |-> picker, scope |-> scope,
     finish |-> checker.finish, final_count |-> checker.final_count]

\* Goals as from_dict leaves them: a finish set with its length as
\* final_count, or no finish and a final_count.
InitSolve ==
    /\ board \in {Triangle, Square}
    /\ start \in SUBSET NodesOf(board)
    /\ entry = "solver.solve"
    /\ checker \in {[finish |-> PySet(S), final_count |-> Cardinality(S)] :
                        S \in SUBSET NodesOf(board)}
                    \cup {[finish |-> None, final_count |-> n] : n \in 0..board.nodes}
    /\ min_pegs = 0
    /\ picker \in {DEPTH_FIRST, BREADTH_FIRST}
    /\ scope \in {SINGLE, MULTIPLE}
    /\ candidates = <<>>
    /\ solutions = <<>>
    /\ pc = "idle"
    /\ log = <<>>
    /\ ret = <<>>

CallSolve ==
    /\ pc = "idle"
    /\ ret' = solver_solve(Cfg)
    /\ pc' = "solve"
    /\ UNCHANGED <<board, start, entry, checker, min_pegs, picker, scope,
                   candidates, solutions, log>>

NextSolve == CallSolve

SpecSolve == InitSolve /\ [][NextSolve]_vars

----------------------------------------------------------------------------
(* config.py: from_dict on a configuration dict.  The dict is a record of its
   five optional keys, a key that is not in the dict holding Absent; the
   description is left out, and the board and layout files are those of the
   board of the run, so validate_description, validate_board and
   validate_layout return.  In these runs `checker` holds the dict and ret
   the outcome of from_dict: the Config or the exception. *)

Absent == [cls |-> "absent"]

PyStr(str) == [cls |-> "str", val |-> str]

PyList(items) == [cls |-> "list", items |-> items]

\* str.upper() on the strings of the runs.
PyUpper(str) ==
    CASE str = "single" -> "SINGLE"
      [] str = "multiple" -> "MULTIPLE"
      [] str = "depth_first" -> "DEPTH_FIRST"
      [] str = "breadth_first" -> "BREADTH_FIRST"
      [] str = "bogus" -> "BOGUS"
      [] OTHER -> str

\* validate_scope: the membership test reads config["scope"].upper(), the
\* lookup en.SolutionScope[config["scope"]] reads the string as given.
validate_scope(config) ==
    IF config.scope.cls = "absent" THEN Value(SINGLE)
    ELSE IF config.scope.cls # "str" THEN Raise("PuzzleException")
    ELSE IF PyUpper(config.scope.val) \notin {"SINGLE", "MULTIPLE"}
    THEN Raise("PuzzleException")
    ELSE IF config.scope.val \in {SINGLE, MULTIPLE} THEN Value(config.scope.val)
    ELSE Raise("KeyError")

\* validate_method: test and lookup both read config["method"].upper().
validate_method(config) ==
    IF config.method.cls = "absent" THEN Value(DEPTH_FIRST)
    ELSE IF config.method.cls # "str" THEN Raise("PuzzleException")
    ELSE IF PyUpper(config.method.val) \notin {DEPTH_FIRST, BREADTH_FIRST}
    THEN Raise("PuzzleException")
    ELSE Value(PyUpper(config.method.val))

\* The filter of validate_start and validate_finish:
\*   not isinstance(x, int) or x < 0 or x >= node_count
BadItem(x, node_count) == x.cls # "int" \/ x.val < 0 \/ x.val >= node_count

\* set(config["start"]) of a list of ints.
SetOfList(lst) == PySet({lst.items[i].val : i \in 1..Len(lst.items)})

validate_start(config, node_count) ==
    IF config.start.cls = "absent" THEN Raise("PuzzleException")
    ELSE IF config.start.cls # "list" THEN Raise("PuzzleException")
    ELSE IF \E i \in 1..Len(config.start.items) : BadItem(config.start.items[i], node_count)
    THEN Raise("PuzzleException")
    ELSE IF Len(config.start.items) # Cardinality(Range(config.start.items))
    THEN Raise("PuzzleException")
    ELSE Value(SetOfList(config.start))

validate_finish(config, node_count) ==
    IF config.finish.cls = "absent" THEN Value(None)
    ELSE IF config.finish.cls # "list" THEN Raise("PuzzleException")
    ELSE IF \E i \in 1..Len(config.finish.items) : BadItem(config.finish.items[i], node_count)
    THEN Raise("PuzzleException")
    ELSE IF Len(config.finish.items) # Cardinality(Range(config.finish.items))
    THEN Raise("PuzzleException")
    ELSE Value(SetOfList(config.finish))

validate_final_count(config, node_count) ==
    IF config.final_count.cls = "absent" THEN Value(None)
    ELSE IF \/ config.final_count.cls # "int"
            \/ config.final_count.val < 0
            \/ config.final_count.val > node_count
    THEN Raise("PuzzleException")
    ELSE Value(config.final_count)

\* from_dict: the validators in the order of the code, the first exception
\* leaving the call; then the mismatch test and the two defaults.
from_dict(config, b) ==
    LET sc == validate_scope(config)
        me == validate_method(config)
        st == validate_start(config, b.nodes)
        fi == validate_finish(config, b.nodes)
        fc == validate_final_count(config, b.nodes)
    IN IF sc.raised # "" THEN Raise(sc.raised)
       ELSE IF me.raised # "" THEN Raise(me.raised)
       ELSE IF st.raised # "" THEN Raise(st.raised)
       ELSE IF fi.raised # "" THEN Raise(fi.raised)
       ELSE IF fc.raised # "" THEN Raise(fc.raised)
       ELSE IF /\ fi.value.cls # "NoneType"
               /\ fc.value.cls # "NoneType"
               /\ Cardinality(fi.value.elems) # fc.value.val
       THEN Raise("PuzzleException")
       ELSE LET finish == IF fi.value.cls = "NoneType" /\ fc.value.cls = "NoneType"
                          THEN PySet(NodesOf(b) \ st.value.elems)
                          ELSE fi.value
                final_count == IF fc.value.cls = "NoneType"
                               THEN PyInt(Cardinality(finish.elems))
                               ELSE fc.value
            IN Value([board |-> b, start |-> st.value, method |-> me.value,
                      scope |-> sc.value, finish |-> finish,
                      final_count |-> final_count])

\* Items of the start and finish lists of the runs: node numbers in and out
\* of range, and a string.
ListItems == {PyInt(-1), PyInt(0), PyInt(1), PyInt(3), PyStr("0")}

ListValues ==
    {Absent, PySet({0, 1})}
    \cup {PyList(items) : items \in UNION {[1..n -> ListItems] : n \in 0..MaxListLen}}

InitConfig ==
    /\ board = Triangle
    /\ start = {}
    /\ entry = "from_dict"
    /\ checker \in [scope : {Absent, PyStr("SINGLE"), PyStr("MULTIPLE"),
                              PyStr("single"), PyStr("bogus")},
                     method : {Absent, PyStr("breadth_first")},
                     start : ListValues,
                     finish : ListValues,
                     final_count : {Absent, PyStr("1")}
                                   \cup {PyInt(n) : n \in (-1)..(board.nodes + 1)}]
    /\ min_pegs = 0
    /\ picker = DEPTH_FIRST
    /\ scope = MULTIPLE
    /\ candidates = <<>>
    /\ solutions = <<>>
    /\ pc = "idle"
    /\ log = <<>>
    /\ ret = <<>>

CallFromDict ==
    /\ pc = "idle"
    /\ ret' = from_dict(checker, board)
    /\ pc' = "from_dict"
    /\ UNCHANGED <<board, start, entry, checker, min_pegs, picker, scope,
                   candidates, solutions, log>>

NextConfig == CallFromDict

SpecConfig == InitConfig /\ [][NextConfig]_vars

----------------------------------------------------------------------------
(* Lookup runs: one call of Board.transit, Board.direction or Board.validate
   on a board read_board can build within the bounds.  ret records the call:
   its name, its arguments and its outcome. *)

InitLookup ==
    /\ board \in GenBoards
    /\ start = {}
    /\ entry = "Board"
    /\ checker = [method |-> COUNT, final_count |-> 0]
    /\ min_pegs = 0
    /\ picker = DEPTH_FIRST
    /\ scope = MULTIPLE
    /\ candidates = <<>>
    /\ solutions = <<>>
    /\ pc = "idle"
    /\ log = <<>>
    /\ ret = <<>>

\* transit(node, direction) for a node and a direction of the board and for
\* the first node number and direction number beyond them.
CallTransit ==
    /\ pc = "idle"
    /\ \E node \in 0..board.nodes, dir \in 0..board.directions :
          ret' = [op |-> "transit", args |-> <<node, dir>>,
                  out |-> transit(board, node, dir)]
    /\ pc' = "transit"
    /\ UNCHANGED <<board, start, entry, checker, min_pegs, picker, scope,
                   candidates, solutions, log>>

\* direction(loc_a, loc_b) for two nodes of the board.
CallDirection ==
    /\ pc = "idle"
    /\ \E loc_a \in NodesOf(board), loc_b \in NodesOf(board) :
          ret' = [op |-> "direction", args |-> <<loc_a, loc_b>>,
                  out |-> direction(board, loc_a, loc_b)]
    /\ pc' = "direction"
    /\ UNCHANGED <<board, start, entry, checker, min_pegs, picker, scope,
                   candidates, solutions, log>>

\* validate(step) for a Step returned by moves on some state of the board.
CallValidate ==
    /\ pc = "idle"
    /\ \E state \in SUBSET NodesOf(board) :
          \E i \in 1..Len(moves(board, state)) :
              ret' = [op |-> "validate", args |-> <<moves(board, state)[i]>>,
                      out |-> validate(board, moves(board, state)[i])]
    /\ pc' = "validate"
    /\ UNCHANGED <<board, start, entry, checker, min_pegs, picker, scope,
                   candidates, solutions, log>>

NextLookup == CallTransit \/ CallDirection \/ CallValidate

SpecLookup == InitLookup /\ [][NextLookup]_vars

----------------------------------------------------------------------------
(* Vocabulary of the properties: the rules of the game stated on sets,
   without the move generator's lists. *)

\* The jumps allowed in state S: a peg at m, a direction d with
\* transit(m, d) = j occupied and transit(j, d) = l empty.
LegalJumps(b, S) ==
    {t \in NodesOf(b) \X NodesOf(b) \X NodesOf(b) :
        /\ t[1] \in S
        /\ t[2] \in S
        /\ t[3] \notin S
        /\ \E d \in DOMAIN b.transitions[t[1]] :
              /\ b.transitions[t[1]][d] = t[2]
              /\ d \in DOMAIN b.transitions[t[2]]
              /\ b.transitions[t[2]][d] = t[3]}

AfterJump(S, t) == (S \ {t[1], t[2]}) \cup {t[3]}

\* Every sequence of legal jumps from S, the empty one included.
RECURSIVE JumpSequences(_, _)
JumpSequences(b, S) ==
    {<<>>} \cup
    UNION {{<<t>> \o q : q \in JumpSequences(b, AfterJump(S, t))} : t \in LegalJumps(b, S)}

RECURSIVE StateAfter(_, _)
StateAfter(S, q) == IF q = <<>> THEN S ELSE StateAfter(AfterJump(S, Head(q)), Tail(q))

\* The goal of the configured checker, on a state.
Goal(b, chk, S) ==
    IF chk.method = COUNT
    THEN Cardinality(S) = chk.final_count /\ LegalJumps(b, S) = {}
    ELSE S = chk.finish

TargetCardinality(chk) ==
    IF chk.method = COUNT THEN chk.final_count ELSE Cardinality(chk.finish)

\* The non-empty jump sequences from the start that end in a goal state.
GoalSequences == {q \in JumpSequences(board, start) : q # <<>> /\ Goal(board, checker, StateAfter(start, q))}

JumpsOf(path) == [k \in 1..Len(path) |-> <<path[k].move, path[k].jump, path[k].land>>]

Occurrences(x, s) == Cardinality({i \in 1..Len(s) : s[i] = x})

\* A path of Steps (Board.solve): non-empty, chained from the start state by
\* legal jumps.
LegalStepPath(p) ==
    /\ Len(p) >= 1
    /\ p[1].start_state = start
    /\ \A k \in 1..Len(p) :
          /\ p[k].cls = "Step"
          /\ <<p[k].move, p[k].jump, p[k].land>> \in LegalJumps(board, p[k].start_state)
          /\ p[k].final_state = AfterJump(p[k].start_state, <<p[k].move, p[k].jump, p[k].land>>)
          /\ k > 1 => p[k].start_state = p[k - 1].final_state

\* A path of states (solve_executive): the start state followed by at least
\* one state, each obtained from the previous one by a legal jump.
LegalStatePath(p) ==
    /\ Len(p) >= 2
    /\ p[1] = PySet(start)
    /\ \A k \in 2..Len(p) :
          /\ p[k].cls = "set"
          /\ \E t \in LegalJumps(board, p[k - 1].elems) : p[k].elems = AfterJump(p[k - 1].elems, t)

SoundPath(p) ==
    IF entry = "Board.solve"
    THEN LegalStepPath(p) /\ Goal(board, checker, Last(p).final_state)
    ELSE LegalStatePath(p) /\ Goal(board, checker, Last(p).elems)

Finished == {log[i] : i \in 1..Len(log)}

OutcomeOf(p, sc) == CHOOSE e \in Finished : e.picker = p /\ e.scope = sc

AllCallsDone == Len(log) = Len(Calls)

----------------------------------------------------------------------------
(* C1 *)

\* C1: every path recorded as a solution, and so every path of a returned
\* list, is a non-empty chain of legal jumps from the start state whose final
\* state satisfies the configured checker.
C1_Soundness ==
    /\ \A i \in 1..Len(solutions) : SoundPath(solutions[i])
    /\ \A e \in Finished : \A i \in 1..Len(e.result) : SoundPath(e.result[i])

\* A two-jump path has been recorded as a solution of a count goal.
C1_Witness ==
    /\ Len(solutions) >= 1
    /\ Len(solutions[1]) >= 3
    /\ checker.method = COUNT
    /\ pc # "loop"

----------------------------------------------------------------------------
(* C2 *)

\* C2: with scope MULTIPLE and min_pegs equal to the target cardinality, the
\* list Board.solve returns holds every goal-reaching jump sequence exactly once.
C2_Completeness ==
    \A e \in Finished :
        (/\ entry = "Board.solve"
         /\ e.scope = MULTIPLE
         /\ e.status = "returned"
         /\ min_pegs = TargetCardinality(checker))
        => /\ {JumpsOf(e.result[i]) : i \in 1..Len(e.result)} = GoalSequences
           /\ Len(e.result) = Cardinality(GoalSequences)

----------------------------------------------------------------------------
(* C3 *)

\* C3: a call returns the empty list only if no state reachable from the start
\* state by zero or more legal jumps satisfies the goal.
C3_EmptyMeansNoSolution ==
    \A e \in Finished :
        (e.status = "returned" /\ e.result = <<>>)
        => \A q \in JumpSequences(board, start) : ~Goal(board, checker, StateAfter(start, q))

----------------------------------------------------------------------------
(* C4 *)

\* C4: for each picker, the SINGLE call and the MULTIPLE call of Board.solve
\* both return; the SINGLE result is empty exactly when the MULTIPLE result is,
\* otherwise it is the one-element list of the first MULTIPLE solution.
C4_ScopeConsistency ==
    (AllCallsDone /\ entry = "Board.solve")
    => \A p \in {DEPTH_FIRST, BREADTH_FIRST} :
          LET one == OutcomeOf(p, SINGLE)
              all == OutcomeOf(p, MULTIPLE)
          IN /\ one.status = "returned"
             /\ all.status = "returned"
             /\ Len(one.result) <= 1
             /\ (one.result = <<>>) <=> (all.result = <<>>)
             /\ all.result # <<>> => one.result = <<all.result[1]>>

----------------------------------------------------------------------------
(* C5 *)

\* C5: under scope MULTIPLE the depth-first and the breadth-first call of
\* Board.solve return the same multiset of solution paths.
C5_PickerIndependence ==
    (AllCallsDone /\ entry = "Board.solve")
    => LET dfs == OutcomeOf(DEPTH_FIRST, MULTIPLE)
           bfs == OutcomeOf(BREADTH_FIRST, MULTIPLE)
       IN /\ dfs.status = "returned"
          /\ bfs.status = "returned"
          /\ Len(dfs.result) = Len(bfs.result)
          /\ \A i \in 1..Len(dfs.result) :
                Occurrences(dfs.result[i], dfs.result) = Occurrences(dfs.result[i], bfs.result)

----------------------------------------------------------------------------
(* C6, C7, C8: the square board, start {0, 1, 2} *)

SquareRun == board = Square /\ start = {0, 1, 2} /\ entry = "Board.solve"

\* C6: scenario B, position goal {1}, depth-first, MULTIPLE: exactly 4
\* solutions, each of 2 Steps.
C6_ScenarioB ==
    (/\ SquareRun
     /\ checker = [method |-> POSITION, finish |-> {1}]
     /\ min_pegs = 1
     /\ \E e \in Finished : e.picker = DEPTH_FIRST /\ e.scope = MULTIPLE)
    => LET e == OutcomeOf(DEPTH_FIRST, MULTIPLE)
       IN /\ e.status = "returned"
          /\ Len(e.result) = 4
          /\ \A i \in 1..Len(e.result) : Len(e.result[i]) = 2

\* Solution counts of test_executive_00 / test_executive_02.
PositionCount(finish) ==
    CASE finish = {0} -> 1
      [] finish = {1} -> 2
      [] finish = {2} -> 1
      [] finish = {0, 3} -> 1
      [] finish = {2, 3} -> 1
      [] OTHER -> 0

\* C7: position goals of 1, 2 or 3 pegs, MULTIPLE, min_pegs = |target|: both
\* pickers return the tabulated number of solutions, all ending in the target.
C7_PositionCounts ==
    (/\ SquareRun
     /\ checker.method = POSITION
     /\ Cardinality(checker.finish) \in 1..3
     /\ min_pegs = Cardinality(checker.finish))
    => \A e \in Finished :
          e.scope = MULTIPLE
          => /\ e.status = "returned"
             /\ Len(e.result) = PositionCount(checker.finish)
             /\ \A i \in 1..Len(e.result) : Last(e.result[i]).final_state = checker.finish

\* C8: scenario C, count goals 0..3, MULTIPLE, min_pegs = target count: both
\* pickers return 4 solutions for count 1 and none for 0, 2 and 3, all ending
\* with the target number of pegs.
C8_ScenarioC ==
    (/\ SquareRun
     /\ checker.method = COUNT
     /\ checker.final_count \in 0..3
     /\ min_pegs = checker.final_count)
    => \A e \in Finished :
          e.scope = MULTIPLE
          => /\ e.status = "returned"
             /\ Len(e.result) = (IF checker.final_count = 1 THEN 4 ELSE 0)
             /\ \A i \in 1..Len(e.result) :
                   Cardinality(Last(e.result[i]).final_state) = checker.final_count

----------------------------------------------------------------------------
(* C9, C10: the move generator *)

\* The (move, direction) pairs the algorithm emits a Step for.
Eligible(b, S) ==
    {e \in S \X (0..(b.directions - 1)) :
        /\ e[2] \in DOMAIN b.transitions[e[1]]
        /\ b.transitions[e[1]][e[2]] \in S
        /\ e[2] \in DOMAIN b.transitions[b.transitions[e[1]][e[2]]]
        /\ b.transitions[b.transitions[e[1]][e[2]]][e[2]] \notin S}

StepFor(b, S, e) ==
    LET j == b.transitions[e[1]][e[2]]
        l == b.transitions[j][e[2]]
    IN Step(S, e[1], j, l, (S \ {e[1], j}) \cup {l})

\* C9: moves(state) holds one Step (m, j, l, state - {m, j} + {l}) for each
\* eligible pair (m, d) and no other Step; it is empty when the state is empty
\* or no node has an eligible jump.
C9_MovesExact ==
    pc = "moves"
    => /\ Len(ret) = Cardinality(Eligible(board, start))
       /\ \A i \in 1..Len(ret) : \E e \in Eligible(board, start) : ret[i] = StepFor(board, start, e)
       /\ \A e \in Eligible(board, start) :
             Occurrences(StepFor(board, start, e), ret) =
             Cardinality({f \in Eligible(board, start) :
                             StepFor(board, start, f) = StepFor(board, start, e)})
       /\ (start = {} \/ Eligible(board, start) = {}) => ret = <<>>

\* moves returned two different Steps.
C9_Witness == pc = "moves" /\ Len(ret) >= 2 /\ ret[1] # ret[2]

\* C10: Steps reaching the same final state through different (move, jump)
\* choices are all retained; on the triangle board with state {0, 1}, moves
\* yields exactly 2 Steps, both with final_state {2}.
C10_NoDeduplication ==
    pc = "moves"
    => /\ \A e, f \in Eligible(board, start) :
             LET x == StepFor(board, start, e)
                 y == StepFor(board, start, f)
             IN (x.final_state = y.final_state /\ <<x.move, x.jump>> # <<y.move, y.jump>>)
                => \E i, k \in 1..Len(ret) : i # k /\ ret[i] = x /\ ret[k] = y
       /\ (board = Triangle /\ start = {0, 1})
          => /\ Len(ret) = 2
             /\ ret[1].final_state = {2}
             /\ ret[2].final_state = {2}

\* moves has run on the triangle board with state {0, 1}.
C10_Witness == pc = "moves" /\ board = Triangle /\ start = {0, 1} /\ Len(ret) = 2

----------------------------------------------------------------------------
(* C11 *)

\* Number of pegs a path element stands for: the final state of a Step
\* (Board.solve), the state itself (solve_executive).
PegCount(x) == IF x.cls = "Step" THEN Cardinality(x.final_state) ELSE Cardinality(x.elems)

\* C11: every Step of every path in the frontier or in the solutions has
\* |final_state| = |start_state| - 1, on every board (self-loops and 2-cycles
\* included), and along every such path the peg count drops by exactly one
\* from each element to the next.
C11_PegMonotonicity ==
    \A p \in Range(candidates) \cup Range(solutions) :
        \A k \in 1..Len(p) :
            /\ p[k].cls = "Step"
               => Cardinality(p[k].final_state) = Cardinality(p[k].start_state) - 1
            /\ k > 1 => PegCount(p[k]) = PegCount(p[k - 1]) - 1

\* On the board with a self-loop and a 2-cycle, Board.solve holds a path of
\* two Steps in its frontier.
C11_Witness ==
    /\ board = Loops
    /\ entry = "Board.solve"
    /\ \E p \in Range(candidates) : Len(p) >= 2

----------------------------------------------------------------------------
(* C12 *)

\* C12: every Step returned by Board.moves has move and jump in start_state,
\* land outside start_state, move and jump outside final_state and land in
\* final_state; Step.validate answers True for it.
C12_StepsValid ==
    pc = "moves"
    => \A i \in 1..Len(ret) :
          /\ {ret[i].move, ret[i].jump} \subseteq ret[i].start_state
          /\ ret[i].land \notin ret[i].start_state
          /\ {ret[i].move, ret[i].jump} \cap ret[i].final_state = {}
          /\ ret[i].land \in ret[i].final_state
          /\ Step_validate(ret[i])

\* moves returned a Step from a state of two pegs, leaving a single peg.
C12_Witness ==
    /\ pc = "moves"
    /\ Cardinality(start) = 2
    /\ \E i \in 1..Len(ret) : Step_validate(ret[i]) /\ ret[i].final_state = {ret[i].land}
----------------------------------------------------------------------------
(* C13 .. C16: validate, ambiguity, direction, transit *)

\* The directions d with transitions[a][d] = b.
DirectionsTo(b, loc_a, loc_b) ==
    {d \in DOMAIN b.transitions[loc_a] : b.transitions[loc_a][d] = loc_b}

\* C13: Board.validate(s) completes and returns True for every Step s that
\* Board.moves returns.
C13_ValidateClosure ==
    pc = "validate" => ret.out = Value(TRUE)

\* C14: for no Step that Board.moves returns does more than one direction
\* lead from move to jump.
C14_NoAmbiguousStep ==
    pc = "moves"
    => \A i \in 1..Len(ret) :
          Cardinality(DirectionsTo(board, ret[i].move, ret[i].jump)) <= 1

\* C15: direction(a, b) completes for every pair of nodes; it returns d when d
\* is the only direction leading from a to b and None when no direction or
\* more than one direction does.
C15_DirectionLookup ==
    pc = "direction"
    => LET ds == DirectionsTo(board, ret.args[1], ret.args[2])
       IN ret.out = (IF Cardinality(ds) = 1 THEN Value(PyInt(Min(ds))) ELSE Value(None))

\* C16: transit(node, direction) returns transitions[node][direction] when the
\* pair is populated and fails with InvalidTransition otherwise, for an absent
\* node as for an absent direction.
C16_TransitLookup ==
    pc = "transit"
    => LET node == ret.args[1]
           dir == ret.args[2]
       IN IF node \in DOMAIN board.transitions /\ dir \in DOMAIN board.transitions[node]
          THEN ret.out = Value(board.transitions[node][dir])
          ELSE ret.out = Raise("InvalidTransition")
----------------------------------------------------------------------------
(* C17, C18: the pickers, applied to every frontier the executives hold *)

BothPicks == {pick_next_depth_first(candidates), pick_next_breadth_first(candidates)}

\* C17: on a non-empty candidate list either picker returns a remainder one
\* shorter than the list, and the selected path together with the remainder
\* is the list as a multiset.
C17_PickPartition ==
    candidates # <<>>
    => \A r \in BothPicks :
          /\ Len(r[2]) = Len(candidates) - 1
          /\ \A x \in Range(candidates) \cup {r[1]} \cup Range(r[2]) :
                Occurrences(x, <<r[1]>> \o r[2]) = Occurrences(x, candidates)

\* A frontier in which some path occurs twice.
C17_Witness ==
    /\ pc = "loop"
    /\ Len(candidates) >= 2
    /\ \E i, k \in 1..Len(candidates) : i # k /\ candidates[i] = candidates[k]

\* C18: the depth-first picker selects the last path of the list and the
\* breadth-first picker the first; the remainder is the rest of the list in
\* its original order.
C18_PickOrder ==
    candidates # <<>>
    => LET n == Len(candidates)
           dfs == pick_next_depth_first(candidates)
           bfs == pick_next_breadth_first(candidates)
       IN /\ dfs[1] = candidates[n]
          /\ dfs[2] = [i \in 1..(n - 1) |-> candidates[i]]
          /\ bfs[1] = candidates[1]
          /\ bfs[2] = [i \in 1..(n - 1) |-> candidates[i + 1]]

\* A breadth-first call holds a frontier of at least three paths whose first
\* and last paths differ.
C18_Witness ==
    /\ pc = "loop"
    /\ picker = BREADTH_FIRST
    /\ Len(candidates) >= 3
    /\ candidates[1] # candidates[Len(candidates)]
----------------------------------------------------------------------------
(* C19, C20: the checkers, applied to every path Board.solve holds *)

\* C19: on a path of Steps the position checker returns True exactly when
\* the final state of the last Step is the target set.
C19_PositionChecker ==
    (entry = "Board.solve" /\ checker.method = POSITION)
    => \A p \in Range(candidates) :
          check_solution_state(p, checker.finish)
              = Value(Last(p).final_state = checker.finish)

\* C20: on a path of Steps the count checker returns True exactly when the
\* final state of the last Step has the target number of pegs and allows no
\* legal jump.
C20_CountChecker ==
    (entry = "Board.solve" /\ checker.method = COUNT)
    => \A p \in Range(candidates) :
          check_solution_count(p, board, checker.final_count)
              = Value(/\ Cardinality(Last(p).final_state) = checker.final_count
                      /\ LegalJumps(board, Last(p).final_state) = {})
----------------------------------------------------------------------------
(* C21 *)

\* The extensions of a path, as the running executive computes them.
Extensions(path) ==
    IF entry = "Board.solve" THEN next_paths(board, path)
    ELSE solver_next_paths(path, board)

\* One iteration of the search loop, told by the peg count of the picked path.
C21_Iteration ==
    (pc = "loop" /\ candidates # <<>>)
    => LET picked == Pick(picker, candidates)
           path == picked[1]
       IN IF PegCount(Last(path)) < min_pegs
          THEN /\ candidates' = picked[2]
               /\ UNCHANGED <<solutions, pc, log>>
          ELSE LET res == Check(checker, board, path)
               IN IF res.raised # "" THEN pc' = res.raised /\ solutions' = solutions
                  ELSE IF res.value THEN solutions' = Append(solutions, path)
                  ELSE /\ candidates' = picked[2] \o Extensions(path)
                       /\ UNCHANGED <<solutions, pc, log>>

\* C21: a picked path whose final state has fewer than min_pegs pegs is
\* dropped with no goal test, no record and no expansion; a picked path with
\* min_pegs pegs or more is goal-tested and then recorded or expanded; every
\* recorded or returned solution ends with at least min_pegs pegs.
C21_PruningRule ==
    /\ [](\A p \in Range(solutions) \cup UNION {Range(e.result) : e \in Finished} :
             PegCount(Last(p)) >= min_pegs)
    /\ [][C21_Iteration]_vars

\* The count-checker call of Board.solve is about to pick a path with fewer
\* than min_pegs pegs: its goal test would raise.
C21_Witness ==
    /\ pc = "loop"
    /\ candidates # <<>>
    /\ entry = "Board.solve"
    /\ checker.method = COUNT
    /\ PegCount(Last(Pick(picker, candidates)[1])) < min_pegs
----------------------------------------------------------------------------
(* C22 *)

\* The state a path element stands for.
FinalState(x) == IF x.cls = "Step" THEN x.final_state ELSE x.elems

\* A path and every path the executive can grow from it.
RECURSIVE Descendants(_)
Descendants(path) ==
    {path} \cup UNION {Descendants(Extensions(path)[i]) : i \in 1..Len(Extensions(path))}

\* C22: with min_pegs equal to the target cardinality, a picked path that the
\* prune test discards, and every path grown from it by further Steps, fails
\* the checker: its final state is not a goal state and the checker does not
\* answer True on it.
C22_PruningSound ==
    (/\ pc = "loop"
     /\ candidates # <<>>
     /\ min_pegs = TargetCardinality(checker)
     /\ PegsOf(Pick(picker, candidates)[1]) < min_pegs)
    => \A d \in Descendants(Pick(picker, candidates)[1]) :
          /\ ~Goal(board, checker, FinalState(Last(d)))
          /\ Check(checker, board, d) # Value(TRUE)

\* The executive is about to discard a path that can still be extended.
C22_Witness ==
    /\ pc = "loop"
    /\ candidates # <<>>
    /\ min_pegs = TargetCardinality(checker)
    /\ PegsOf(Pick(picker, candidates)[1]) < min_pegs
    /\ Extensions(Pick(picker, candidates)[1]) # <<>>
----------------------------------------------------------------------------
(* C23 *)

\* One step of a running call, seen from the solutions list: it is left as
\* it is or the path picked in this step is appended to it, and a call that
\* returns hands back the list as it stands.
C23_Step ==
    pc = "loop"
    => /\ \/ solutions' = solutions
          \/ /\ candidates # <<>>
             /\ solutions' = Append(solutions, Pick(picker, candidates)[1])
       /\ pc' = "returned" => Last(log').result = solutions'

\* C23: the solutions list only grows, at its end, by the path picked in the
\* current iteration, so its order is the order in which the solutions were
\* picked; no recorded solution is removed, replaced or moved before the call
\* returns the list.
C23_DiscoveryOrder == [][C23_Step]_vars

\* A call of Board.solve holds two recorded solutions and is still running.
C23_Witness == pc = "loop" /\ Len(solutions) >= 2 /\ solutions[1] # solutions[2]
----------------------------------------------------------------------------
(* C24 *)

\* C24: on the triangle board with start {0, 1} and position goal {2}, every
\* MULTIPLE call, of Board.solve as of solve_executive, returns two solutions:
\* the two move sequences that end in {2} are both kept.
C24_NoDedupAtEntry ==
    (/\ board = Triangle
     /\ start = {0, 1}
     /\ checker = [method |-> POSITION, finish |-> {2}]
     /\ min_pegs <= 1)
    => \A e \in Finished :
          e.scope = MULTIPLE
          => /\ e.status = "returned"
             /\ Len(e.result) = 2
----------------------------------------------------------------------------
(* C25 *)

\* Number of Steps of a path: a path of states starts with the start state.
StepsOf(p) == IF entry = "Board.solve" THEN Len(p) ELSE Len(p) - 1

----------------------------------------------------------------------------
(* C26 *)

\* C26: on every board whose destinations are nodes of the board, with or
\* without an entry for every node, and on every state, moves completes
\* without a failed lookup.
C26_NoLookupFailure ==
    pc = "moves direct" => ret.raised = ""
----------------------------------------------------------------------------
(* C27 *)

\* Generation order of the eligible pairs: ascending move, then direction.
InFrontOf(e, f) == e[1] < f[1] \/ (e[1] = f[1] /\ e[2] < f[2])

\* The entry of a call, seen from the frontier: one path of one move for each
\* eligible (move, direction) pair of the start state, in generation order,
\* and no solution yet.
C27_Entry ==
    (pc # "loop" /\ pc' = "loop")
    => LET E == Eligible(board, start)
       IN /\ solutions' = <<>>
          /\ Len(candidates') = Cardinality(E)
          /\ \A e \in E :
                LET i == 1 + Cardinality({f \in E : InFrontOf(f, e)})
                    s == StepFor(board, start, e)
                IN IF entry = "Board.solve" THEN candidates'[i] = <<s>>
                   ELSE candidates'[i] = <<PySet(start), PySet(s.final_state)>>

\* C27: when a call enters its loop the frontier holds the Steps of
\* moves(start), each as a path of one Step, in generation order, and the
\* solutions list is empty; the path of no move is never in the frontier, so
\* it is never picked or goal-tested.
C27_FrontierInit ==
    /\ [](\A p \in Range(candidates) : StepsOf(p) >= 1)
    /\ [][C27_Entry]_vars

\* The part of C27 that is about Board.solve.
C27_BoardSolveOnly ==
    /\ [](\A p \in Range(candidates) : StepsOf(p) >= 1)
    /\ [][entry = "Board.solve" => C27_Entry]_vars
----------------------------------------------------------------------------
(* C28 *)

\* The chain of one path: it starts from the configured start state, each
\* element continues from the state the previous one ended in, replaying its
\* jumps from the start state gives its final state, and k jumps leave
\* |start| - k pegs.
Chained(p) ==
    /\ StepsOf(p) >= 1
    /\ IF entry = "Board.solve"
       THEN /\ p[1].start_state = start
            /\ \A k \in 2..Len(p) : p[k].start_state = p[k - 1].final_state
            /\ StateAfter(start, JumpsOf(p)) = Last(p).final_state
       ELSE /\ p[1] = PySet(start)
            /\ \A k \in 2..Len(p) :
                  \E t \in LegalJumps(board, p[k - 1].elems) :
                      p[k].elems = AfterJump(p[k - 1].elems, t)
    /\ PegCount(Last(p)) = Cardinality(start) - StepsOf(p)

\* C28: every path of the frontier and of the solutions list starts from the
\* configured start state, each later Step starts from the final state of the
\* Step before it, replaying the (move, jump, land) triples from the start
\* state gives the path's final state, and a path of k Steps ends with
\* |start| - k pegs.
C28_PathChain ==
    \A p \in Range(candidates) \cup Range(solutions) : Chained(p)

\* Board.solve has recorded a solution of two Steps or more while paths of
\* two Steps or more wait in the frontier.
C28_Witness ==
    /\ entry = "Board.solve"
    /\ \E p \in Range(solutions) : Len(p) >= 2
    /\ \E p \in Range(candidates) : Len(p) >= 2
----------------------------------------------------------------------------
(* C29 *)

IsProperPrefix(s, p) == Len(s) < Len(p) /\ SubSeq(p, 1, Len(s)) = s

\* One iteration, told by what happens to the picked path: a pruned path and
\* a matched path leave the frontier as the pick left it, and the frontier
\* receives paths only as the extensions of a path that was not pruned and
\* on which the checker answered False.
C29_Step ==
    (pc = "loop" /\ candidates # <<>>)
    => LET picked == Pick(picker, candidates)
           path == picked[1]
           pruned == PegCount(Last(path)) < min_pegs
           res == Check(checker, board, path)
       IN /\ pruned => candidates' = picked[2] /\ solutions' = solutions
          /\ (~pruned /\ res = Value(TRUE))
             => candidates' = picked[2] /\ solutions' = Append(solutions, path)
          /\ candidates' # picked[2]
             => /\ ~pruned
                /\ res = Value(FALSE)
                /\ candidates' = picked[2] \o Extensions(path)
                /\ solutions' = solutions

\* C29: a path on which the checker answers True is recorded and not
\* expanded, under SINGLE as under MULTIPLE; a path is expanded only when it
\* was neither pruned nor matched; no recorded or returned solution is a
\* proper prefix of another one or of a path of the frontier.
C29_MatchedNotExpanded ==
    /\ [](\A s \in Range(solutions) :
             \A p \in Range(solutions) \cup Range(candidates) : ~IsProperPrefix(s, p))
    /\ [](\A e \in Finished : \A s, p \in Range(e.result) : ~IsProperPrefix(s, p))
    /\ [][C29_Step]_vars

\* A MULTIPLE call has returned a solution that legal moves could extend.
C29_Witness ==
    /\ pc = "returned"
    /\ scope = MULTIPLE
    /\ \E s \in Range(solutions) : Extensions(s) # <<>>
----------------------------------------------------------------------------
(* C30 *)

\* The Steps held by the paths of the frontier and of the solutions list.
HeldSteps == UNION {Range(p) : p \in Range(candidates) \cup Range(solutions)}

\* One step of a call, seen from the heap: no set object that exists changes
\* (the state handed to moves and do_move, and every state held by a path,
\* are such objects), and the final_state of every Step new to the frontier
\* is an object built in this step.
C30_Step ==
    /\ Len(ret') >= Len(ret)
    /\ \A a \in 1..Len(ret) : ret'[a] = ret[a]
    /\ \A p \in Range(candidates') \ Range(candidates) :
          Last(p).final_state \in (Len(ret) + 1)..Len(ret')

\* C30: moves and do_move leave the state object they are given as it is;
\* the final_state of a Step is a set object of its own, shared neither with
\* the Step's start_state nor with another Step; the object at each address
\* held by a path of the frontier or of the solutions keeps the content it
\* was built with while other paths are expanded.
C30_ValueStates ==
    /\ [](ret[1] = start)
    /\ [](\A x \in HeldSteps :
             /\ x.final_state # x.start_state
             /\ ret[x.final_state] = (ret[x.start_state] \ {x.move, x.jump}) \cup {x.land}
             /\ \A y \in HeldSteps : y.final_state = x.final_state => y = x)
    /\ [][C30_Step]_vars

\* A path was expanded after a solution was recorded: the frontier holds a
\* path of two Steps or more whose last set object was built after the last
\* set object of the recorded solution, and two sibling Steps.
C30_Witness ==
    /\ pc = "loop"
    /\ Len(solutions) >= 1
    /\ \E p, q \in Range(candidates) :
          /\ Len(p) >= 2
          /\ Last(p).final_state > Last(solutions[1]).final_state
          /\ Last(p).start_state = Last(q).start_state
          /\ Last(p).final_state # Last(q).final_state
----------------------------------------------------------------------------
(* C31 *)

\* An expansion of Board.solve, seen from the frontier: behind the paths the
\* pick left, one path for each eligible (move, direction) pair of the final
\* state of the picked path, in generation order, each the picked path
\* followed by the Step of that pair.
C31_Expansion ==
    (/\ pc = "loop"
     /\ entry = "Board.solve"
     /\ candidates # <<>>
     /\ ~(PegCount(Last(Pick(picker, candidates)[1])) < min_pegs)
     /\ Check(checker, board, Pick(picker, candidates)[1]) = Value(FALSE))
    => LET picked == Pick(picker, candidates)
           path == picked[1]
           S == Last(path).final_state
           E == Eligible(board, S)
           n == Len(picked[2])
       IN /\ Len(candidates') = n + Cardinality(E)
          /\ SubSeq(candidates', 1, n) = picked[2]
          /\ \A e \in E :
                LET i == 1 + Cardinality({f \in E : InFrontOf(f, e)})
                IN /\ Len(candidates'[n + i]) = Len(path) + 1
                   /\ SubSeq(candidates'[n + i], 1, Len(path)) = path
                   /\ Last(candidates'[n + i]) = StepFor(board, S, e)
          /\ E = {} => candidates' = picked[2]

\* C31: next_paths(path) returns one path per Step of moves of the final
\* state of path, in generation order, each of length len(path) + 1 and made
\* of path followed by that Step; path itself is not changed; the result is
\* empty when the final state has no legal move.
C31_NextPaths == [][C31_Expansion]_vars

\* The frontier of Board.solve holds two different extensions of one path.
C31_Witness ==
    /\ pc = "loop"
    /\ entry = "Board.solve"
    /\ \E p, q \in Range(candidates) :
          /\ Len(p) >= 2
          /\ Len(q) = Len(p)
          /\ p # q
          /\ SubSeq(p, 1, Len(p) - 1) = SubSeq(q, 1, Len(q) - 1)
----------------------------------------------------------------------------
(* C32 *)

\* Two calls of the checker with the same arguments: the same outcome, and
\* no set object, path or board changed.
C32_SameOutcome ==
    (pc = "idle" /\ pc' = "checked")
    => /\ log'[1] = log'[2]
       /\ ret' = ret
       /\ candidates' = candidates
       /\ board' = board

\* C32: called twice with the same path, board and target, at any point of a
\* search, the position checker and the count checker each answer the same
\* boolean both times and change neither the path, the board nor the
\* frontier.
C32_CheckerDeterminism ==
    [][/\ C32_SameOutcome
       /\ (pc = "idle" /\ pc' = "checked") => log'[1] \in {Value(TRUE), Value(FALSE)}]_vars

\* The part of C32 that holds: both calls end the same way, by the same
\* boolean or by the same exception, and change nothing.
C32_Pure == [][C32_SameOutcome]_vars

----------------------------------------------------------------------------
(* C33 *)

\* One call of a picker, seen from the heap: the candidate list and every
\* path keep their content; the selected path is one of the path objects of
\* the list; the remainder is a list object that did not exist before, and
\* the selection and the remainder together are the candidates.
C33_Call ==
    (pc = "idle" /\ pc' = "picked")
    => /\ \A a \in 1..Len(ret) : ret'[a] = ret[a]
       /\ log'[1].raised = ""
          => LET next == log'[1].value[1]
                 rest == log'[1].value[2]
             IN /\ rest \in (Len(ret) + 1)..Len(ret')
                /\ Len(ret'[rest]) = Len(ret[candidates]) - 1
                /\ \/ ret[candidates] = Append(ret'[rest], next)
                   \/ ret[candidates] = <<next>> \o ret'[rest]

\* C33: pick_next_depth_first and pick_next_breadth_first leave the list
\* they are given as it was (same paths, same order, same length) and return
\* the selected path as it was; the remainder is another collection.
C33_PickersPure == [][C33_Call]_vars

\* The breadth-first picker was called on a list of three paths.
C33_Witness ==
    /\ pc = "picked"
    /\ picker = BREADTH_FIRST
    /\ Len(ret[candidates]) = 3
    /\ log[1].raised = ""
----------------------------------------------------------------------------
(* C34 *)

\* C34: every solution recorded or returned for a position goal has
\* |start| - |target set| Steps and every solution recorded or returned for a
\* count goal has |start| - target count Steps; the solutions of one search
\* all have the same length.
C34_SolutionLength ==
    /\ \A p \in Range(solutions) \cup UNION {Range(e.result) : e \in Finished} :
          StepsOf(p) = Cardinality(start) - TargetCardinality(checker)
    /\ \A p, q \in Range(solutions) : Len(p) = Len(q)
    /\ \A e \in Finished : \A p, q \in Range(e.result) : Len(p) = Len(q)

\* A call has returned two solutions or more, of two Steps or more each.
C34_Witness ==
    \E e \in Finished :
        /\ e.status = "returned"
        /\ Len(e.result) >= 2
        /\ StepsOf(e.result[1]) >= 2

\* solve_executive has recorded a solution of two moves or more for a count
\* goal.
C34_WitnessCount ==
    /\ entry = "solve_executive"
    /\ checker.method = COUNT
    /\ \E p \in Range(solutions) : StepsOf(p) >= 2
----------------------------------------------------------------------------
(* C35 *)

\* The frontier of a breadth-first call: lengths never decrease from front
\* to back and differ by at most 1.
C35_Ordered ==
    (pc = "loop" /\ picker = BREADTH_FIRST)
    => \A i, k \in 1..Len(candidates) :
          i < k => /\ Len(candidates[i]) <= Len(candidates[k])
                   /\ Len(candidates[k]) <= Len(candidates[i]) + 1

\* One iteration of a breadth-first call: the picked path is no longer than
\* any path left in or added to the frontier, which are the paths picked
\* later.
C35_Pick ==
    (pc = "loop" /\ picker = BREADTH_FIRST /\ candidates # <<>> /\ pc' = "loop")
    => \A p \in Range(candidates') : Len(Pick(picker, candidates)[1]) <= Len(p)

\* C35: with the breadth-first picker, at the start of every iteration the
\* paths of the frontier are in non-decreasing order of length from front to
\* back and their lengths differ by at most 1, so paths are picked in
\* non-decreasing order of length.
C35_BreadthFirstFrontier == [](C35_Ordered) /\ [][C35_Pick]_vars

\* The frontier of a breadth-first call holds paths of two lengths.
C35_Witness ==
    /\ pc = "loop"
    /\ picker = BREADTH_FIRST
    /\ \E p, q \in Range(candidates) : Len(p) < Len(q)
----------------------------------------------------------------------------
(* C36 *)

\* C36: on every board and state the states solver.moves returns are pairwise
\* distinct and are, as a set, the final states of the Steps Board.moves
\* returns; the lists differ only in that Board.moves may hold several Steps
\* with one final state: each state stands where the first Step reaching it
\* stands.
C36_GeneratorsAgree ==
    pc = "both moves"
    => LET bm == ret.board_moves
           sm == ret.solver_moves
           First(S) == Min({i \in 1..Len(bm) : bm[i].final_state = S})
       IN /\ \A i, k \in 1..Len(sm) : i # k => sm[i] # sm[k]
          /\ Range(sm) = {bm[i].final_state : i \in 1..Len(bm)}
          /\ \A i, k \in 1..Len(sm) : i < k => First(sm[i]) < First(sm[k])

\* Board.moves returned more Steps than solver.moves returned states, and
\* solver.moves returned two states or more.
C36_Witness ==
    /\ pc = "both moves"
    /\ Len(ret.board_moves) > Len(ret.solver_moves)
    /\ Len(ret.solver_moves) >= 2
----------------------------------------------------------------------------
(* C37 *)

\* C37: solver.solve hands solve_executive min_pegs = |finish| when the
\* Config has a finish set (position checker) and min_pegs = final_count when
\* it has none (count checker), with the picker of the configured method and
\* the checker of the goal type.
C37_SolveDerivesBound ==
    pc = "solve"
    => /\ ret.raised = ""
       /\ ret.value.picker = picker
       /\ IF checker.finish = None
          THEN /\ ret.value.min_pegs = checker.final_count
               /\ ret.value.checker = [method |-> COUNT, final_count |-> checker.final_count]
          ELSE /\ ret.value.min_pegs = Cardinality(checker.finish.elems)
               /\ ret.value.checker = [method |-> POSITION, finish |-> checker.finish.elems]
----------------------------------------------------------------------------
(* C38 *)

\* A list of node numbers with a duplicate or with a number outside
\* [0, nodes).
MalformedList(v) ==
    /\ v.cls = "list"
    /\ \A i \in 1..Len(v.items) : v.items[i].cls = "int"
    /\ \/ \E i \in 1..Len(v.items) : v.items[i].val \notin NodesOf(board)
       \/ Len(v.items) # Cardinality(Range(v.items))

WellFormedList(v) ==
    /\ v.cls = "list"
    /\ \A i \in 1..Len(v.items) : v.items[i].cls = "int" /\ v.items[i].val \in NodesOf(board)
    /\ Len(v.items) = Cardinality(Range(v.items))

\* The goal specification of the dict is malformed in one of the ways C38
\* lists.
MalformedGoal ==
    \/ MalformedList(checker.start)
    \/ MalformedList(checker.finish)
    \/ checker.final_count.cls = "int" /\ checker.final_count.val \notin 0..board.nodes
    \/ /\ WellFormedList(checker.finish)
       /\ checker.final_count.cls = "int"
       /\ Len(checker.finish.items) # checker.final_count.val

\* What C38 states of a finished call of from_dict.
C38_Outcome ==
    /\ MalformedGoal => ret.raised = "PuzzleException"
    /\ ret.raised = ""
       => /\ ret.value.start = SetOfList(checker.start)
          /\ checker.finish.cls = "list" => ret.value.finish = SetOfList(checker.finish)

\* C38: from_dict rejects with a PuzzleException, returning no Config, a
\* start or finish list with a duplicate or with an index outside
\* [0, nodes), a final_count outside [0, nodes], and a finish list given
\* with a final_count other than its length; the start and finish of a
\* Config it returns are sets.
C38_GoalValidation == pc = "from_dict" => C38_Outcome

\* The part of C38 that holds: the same, for a dict whose scope is absent or
\* spelled in upper case.
C38_UpperCaseScope ==
    (pc = "from_dict" /\ checker.scope # PyStr("single")) => C38_Outcome
====
